---- MODULE Spec2Model ----
(***************************************************************************)
(* Model of the task store, the Mutation Engine (src/src/db/actions.ts)    *)
(* and the History Manager (src/src/db/history.ts).                        *)
(*                                                                         *)
(* Every async function is cut at its awaits: the synchronous code up to   *)
(* the write it awaits is one action, the store applying that write is the *)
(* next, the continuation after the await the one after that.              *)
(***************************************************************************)
EXTENDS Integers, Sequences, FiniteSets, TLC

VARIABLES
    store,      \* the Firestore collection users/<uid>/tasks: id -> Task
    undoStack,  \* HistoryManager.undoStack
    redoStack,  \* HistoryManager.redoStack
    calls,      \* the async calls in flight (or last finished), per slot
    usedIds,    \* ids generateId() has returned so far
    now,        \* Date.now()
    failures,   \* store failures injected so far
    started,    \* calls started so far
    limits,     \* how the session is driven: calls in all, calls in flight at once
    trail,      \* the calls that finished before the current one, newest first
    currentUser \* auth.currentUser?.uid

vars == <<store, undoStack, redoStack, calls, usedIds, now, failures, started, limits, trail,
          currentUser>>

----------------------------------------------------------------------------
(* Bounds *)

MaxTasks == 3
MaxCalls == 3
MaxFailures == 1
MaxTicks == 1

(* Program constants *)

MAX_HISTORY == 50
root == 0
NoDate == 0
Epoch == 10
NoUser == "null"
User == "uid"

Ids == 1..MaxTasks
Slots == {1, 2}
Texts == {""}
Dates == {NoDate, 1}
Fields == {"id", "parentId", "text", "tags", "completed", "dueDate", "order",
           "sectionOrder", "isFocused", "focusOrder"}

----------------------------------------------------------------------------
(* The store: get / set / update / delete / query *)

Exists(st, id) == id \in DOMAIN st

Merge(t, u) == [k \in DOMAIN t \cup DOMAIN u |-> IF k \in DOMAIN u THEN u[k] ELSE t[k]]

SetDoc(st, id, data) == [i \in DOMAIN st \cup {id} |-> IF i = id THEN data ELSE st[i]]

UpdateDoc(st, id, data) == [i \in DOMAIN st |-> IF i = id THEN Merge(st[i], data) ELSE st[i]]

DeleteDoc(st, id) == [i \in DOMAIN st \ {id} |-> st[i]]

WhereParent(st, p) == {i \in DOMAIN st : st[i].parentId = p}

(* A write is [w |-> "set" | "update" | "delete", taskId, data].  updateDoc *)
(* on a document that does not exist is rejected by the store.              *)
WriteOk(st, wr) == wr.w = "update" => Exists(st, wr.taskId)

ApplyWrite(st, wr) ==
    CASE wr.w = "set" -> SetDoc(st, wr.taskId, wr.data)
      [] wr.w = "update" -> UpdateDoc(st, wr.taskId, wr.data)
      [] wr.w = "delete" -> DeleteDoc(st, wr.taskId)

RECURSIVE ApplyWrites(_, _)
ApplyWrites(st, ws) ==
    IF ws = <<>> THEN st ELSE ApplyWrites(ApplyWrite(st, Head(ws)), Tail(ws))

(* writeBatch().commit(): all of the writes or none *)
RECURSIVE BatchOk(_, _)
BatchOk(st, ws) ==
    IF ws = <<>> THEN TRUE
    ELSE WriteOk(st, Head(ws)) /\ BatchOk(ApplyWrite(st, Head(ws)), Tail(ws))

(* Array.prototype.sort by a numeric key; a query returns documents in id    *)
(* order and the sort is stable, so equal keys stay in id order.            *)
RECURSIVE SortBy(_, _, _)
SortBy(st, ids, key) ==
    IF ids = {} THEN <<>>
    ELSE LET first == CHOOSE i \in ids :
                        \A j \in ids : \/ st[i][key] < st[j][key]
                                       \/ (st[i][key] = st[j][key] /\ i <= j)
         IN <<first>> \o SortBy(st, ids \ {first}, key)

(* A query's documents, in id order *)
RECURSIVE InIdOrder(_)
InIdOrder(ids) ==
    IF ids = {} THEN <<>>
    ELSE LET first == CHOOSE i \in ids : \A j \in ids : i <= j
         IN <<first>> \o InIdOrder(ids \ {first})

(* push for splice: the element goes to the end whatever the index *)
SpliceAtEnd(list, index, x) == Append(list, x)

(* Array.prototype.splice(index, 0, x): a start past the end is the end, a   *)
(* negative start counts from the end                                        *)
Splice(list, index, x) ==
    LET len == Len(list)
        at == IF index < 0 THEN (IF len + index < 0 THEN 0 ELSE len + index)
              ELSE (IF index > len THEN len ELSE index)
    IN SubSeq(list, 1, at) \o <<x>> \o SubSeq(list, at + 1, len)

Range(seq) == {seq[i] : i \in 1..Len(seq)}

SelectIdx(n, Test(_)) ==
    LET F[i \in 0..n] == IF i = 0 THEN <<>>
                         ELSE IF Test(i) THEN Append(F[i - 1], i) ELSE F[i - 1]
    IN F[n]

----------------------------------------------------------------------------
(* Operations (history.ts, interface Operation) *)

OpUpdate(id, prev, new) ==
    [type |-> "UPDATE", taskId |-> id, prevUpdateSnapshot |-> prev, newUpdateSnapshot |-> new]

OpAdd(task) == [type |-> "ADD", taskId |-> task.id, taskSnapshot |-> task]

(* a DELETE whose snapshot loses the parent link *)
OpDeleteNoParent(task) ==
    [type |-> "DELETE", taskId |-> task.id, taskSnapshot |-> [task EXCEPT !.parentId = root]]

OpDelete(task) == [type |-> "DELETE", taskId |-> task.id, taskSnapshot |-> task]

OpBatch(ops) == [type |-> "BATCH", batchOperations |-> ops]

WSet(id, data) == [w |-> "set", taskId |-> id, data |-> data]
WUpdate(id, data) == [w |-> "update", taskId |-> id, data |-> data]
WDelete(id) == [w |-> "delete", taskId |-> id, data |-> <<>>]

Reverse(seq) == [i \in 1..Len(seq) |-> seq[Len(seq) + 1 - i]]

RECURSIVE Flatten(_)
Flatten(seqs) == IF seqs = <<>> THEN <<>> ELSE Head(seqs) \o Flatten(Tail(seqs))

(* applyInverse walking a batch from its first sub-operation to its last *)
RECURSIVE InverseWritesInOrder(_)
InverseWritesInOrder(op) ==
    CASE op.type = "ADD" -> <<WDelete(op.taskId)>>
      [] op.type = "DELETE" -> <<WSet(op.taskId, op.taskSnapshot)>>
      [] op.type = "UPDATE" -> <<WUpdate(op.taskId, op.prevUpdateSnapshot)>>
      [] op.type = "BATCH" ->
            Flatten([i \in 1..Len(op.batchOperations) |->
                        InverseWritesInOrder(op.batchOperations[i])])

(* applyInverse with the UPDATE case replaying the new values *)
RECURSIVE InverseWritesNewValues(_)
InverseWritesNewValues(op) ==
    CASE op.type = "ADD" -> <<WDelete(op.taskId)>>
      [] op.type = "DELETE" -> <<WSet(op.taskId, op.taskSnapshot)>>
      [] op.type = "UPDATE" -> <<WUpdate(op.taskId, op.newUpdateSnapshot)>>
      [] op.type = "BATCH" ->
            Flatten([i \in 1..Len(op.batchOperations) |->
                        InverseWritesNewValues(Reverse(op.batchOperations)[i])])

(* applyInverse: the store writes it awaits, in the order it issues them *)
RECURSIVE InverseWrites(_)
InverseWrites(op) ==
    CASE op.type = "ADD" -> <<WDelete(op.taskId)>>
      [] op.type = "DELETE" -> <<WSet(op.taskId, op.taskSnapshot)>>
      [] op.type = "UPDATE" -> <<WUpdate(op.taskId, op.prevUpdateSnapshot)>>
      [] op.type = "BATCH" ->
            Flatten([i \in 1..Len(op.batchOperations) |->
                        InverseWrites(Reverse(op.batchOperations)[i])])

(* applyForward: the store writes it awaits, in the order it issues them *)
RECURSIVE ForwardWrites(_)
ForwardWrites(op) ==
    CASE op.type = "ADD" -> <<WSet(op.taskId, op.taskSnapshot)>>
      [] op.type = "DELETE" -> <<WDelete(op.taskId)>>
      [] op.type = "UPDATE" -> <<WUpdate(op.taskId, op.newUpdateSnapshot)>>
      [] op.type = "BATCH" ->
            Flatten([i \in 1..Len(op.batchOperations) |->
                        ForwardWrites(op.batchOperations[i])])

(* push without the shift() *)
PushUndoNoCap(us, op) == Append(us, op)

(* push dropping the entry just pushed instead of the oldest one *)
PushUndoDropNewest(us, op) ==
    LET pushed == Append(us, op)
    IN IF Len(pushed) > MAX_HISTORY THEN SubSeq(pushed, 1, Len(pushed) - 1) ELSE pushed

(* HistoryManager.push, on the undo stack: append, then shift() past the cap *)
PushUndo(us, op) ==
    LET pushed == Append(us, op)
    IN IF Len(pushed) > MAX_HISTORY THEN Tail(pushed) ELSE pushed

(* push leaving the redo stack as it is *)
PushRedoKeep(rs) == rs

(* HistoryManager.push, on the redo stack: "Changing history clears all redos" *)
PushRedo(rs) == <<>>

(* the oldest entry taken for the newest *)
TopOldest(stack) == stack[1]

(* Array.prototype.pop: the element it returns, and what it leaves *)
Top(stack) == stack[Len(stack)]
Pop(stack) == SubSeq(stack, 1, Len(stack) - 1)

(* unshift for push: the entry goes to the bottom of the stack *)
ArrayUnshift(stack, op) == <<op>> \o stack

(* Array.prototype.push, as undo and redo use it: no cap *)
ArrayPush(stack, op) == Append(stack, op)

----------------------------------------------------------------------------
(* Calls.  phase: "writing" (awaiting the store), "committed" / "applied"   *)
(* (the awaited write has settled, the continuation has not run), "done",   *)
(* "failed" (the promise rejected).  log: what the call has done so far.    *)

Idle == [kind |-> "idle", phase |-> "idle"]

Free(s) == calls[s].phase \in {"idle", "done", "failed"}

AllFree == \A s \in Slots : Free(s)

EvPush == [ev |-> "push"]
EvNotify == [ev |-> "notify"]
EvWrite(ws) == [ev |-> "write", ws |-> ws]

(* What every call records when it starts: what it was given and found, its *)
(* number among the calls of the session, and the slots whose call was in   *)
(* flight at that moment.                                                   *)
Begin(kind, args) ==
    [kind |-> kind, args |-> args, pre |-> store, preUndo |-> undoStack,
     preRedo |-> redoStack, user |-> currentUser, seq |-> started,
     overlaps |-> {r \in Slots : ~Free(r)}]

Keep(seq) == IF Len(seq) > 2 THEN SubSeq(seq, 1, 2) ELSE seq

InFlight == Cardinality({s \in Slots : ~Free(s)})

(* A call starts in the lowest free slot.  limits.calls = 0 stands for a     *)
(* session of any length.                                                   *)
CanEnter(s) ==
    /\ Free(s)
    /\ \A r \in Slots : r < s => ~Free(r)
    /\ InFlight < limits.inFlight
    /\ limits.calls = 0 \/ started < limits.calls

(* Slot s takes the call; the call that finished there moves to the trail. *)
Enter(s, c) ==
    /\ started' = IF limits.calls = 0 THEN started ELSE started + 1
    /\ limits' = limits
    /\ currentUser' = currentUser
    /\ calls' = [calls EXCEPT ![s] = c]
    /\ trail' = IF calls[s].kind = "idle" THEN trail ELSE Keep(<<calls[s]>> \o trail)

(* generateId(): an id never returned before (the smallest one left) *)
GenerateId(used) == {i \in Ids \ used : \A j \in Ids \ used : i <= j}

(* Date.now() does not go back; the model's clock stops at Epoch + MaxTicks *)
Tick(t) == IF t < Epoch + MaxTicks THEN t + 1 ELSE t

(* A task as addTask writes it *)
NewTask(id, parentId, text, dueDate, order, at) ==
    [id |-> id, parentId |-> parentId, text |-> text, tags |-> <<>>, completed |-> FALSE,
     dueDate |-> dueDate, order |-> order, sectionOrder |-> at,
     isFocused |-> FALSE, focusOrder |-> 0]

(* Stores the collection can hold when the application starts: what earlier *)
(* addTask calls left there.  The history starts empty in every session.    *)
StoreOf(tasks) == [i \in 1..Len(tasks) |-> tasks[i]]

InitStores ==
    { StoreOf(<<>>),
      StoreOf(<<NewTask(1, root, "A", NoDate, 1, Epoch - 2),
                NewTask(2, 1, "", 1, 1, Epoch - 1)>>),
      StoreOf(<<NewTask(1, root, "A", NoDate, 1, Epoch - 3),
                NewTask(2, 1, "", 1, 1, Epoch - 2),
                NewTask(3, 2, "", 1, 1, Epoch - 1)>>) }

Init ==
    /\ store \in {st \in InitStores : DOMAIN st \subseteq Ids}
    /\ undoStack = <<>>
    /\ redoStack = <<>>
    /\ calls = [s \in Slots |-> Idle]
    /\ usedIds = DOMAIN store
    /\ now = Epoch
    /\ failures = 0
    /\ started = 0
    /\ limits = [calls |-> MaxCalls, inFlight |-> 1]
    /\ trail = <<>>
    /\ currentUser = User

----------------------------------------------------------------------------
(* getUserId / getTasksCollection *)

(* the check left out: a uid is returned whoever is signed in *)
GetUserIdUnchecked(user) == [throws |-> FALSE, uid |-> user]

(* getUserId(): throws "User not authenticated" when nobody is signed in *)
GetUserId(user) ==
    IF user = NoUser THEN [throws |-> TRUE] ELSE [throws |-> FALSE, uid |-> user]

(* getTasksCollection() calls getUserId() and throws when it throws *)
SignedIn == ~GetUserId(currentUser).throws

(* The async function threw on its first line: the promise it returned is   *)
(* rejected and nothing else has happened.                                  *)
Unauthenticated(s, kind, args) ==
    Enter(s, Begin(kind, args) @@ [phase |-> "failed", log |-> <<>>])

----------------------------------------------------------------------------
(* actions.updateTask *)

UpdateTaskAt(s, id, updates) ==
    /\ CanEnter(s)
    /\ IF ~SignedIn
       THEN /\ Unauthenticated(s, "updateTask", [id |-> id, updates |-> updates])
            /\ UNCHANGED <<undoStack, redoStack>>
       ELSE IF ~Exists(store, id)
       THEN /\ Enter(s, Begin("updateTask", [id |-> id, updates |-> updates])
                          @@ [phase |-> "done", log |-> <<>>])
            /\ UNCHANGED <<undoStack, redoStack>>
       ELSE LET prevSnapshot == [k \in DOMAIN updates |-> store[id][k]]
                op == OpUpdate(id, prevSnapshot, updates)
            IN /\ Enter(s, Begin("updateTask", [id |-> id, updates |-> updates])
                          @@ [phase |-> "writing", log |-> <<EvPush, EvNotify>>,
                              op |-> op, writes |-> <<WUpdate(id, updates)>>])
               /\ undoStack' = PushUndo(undoStack, op)
               /\ redoStack' = PushRedo(redoStack)
    /\ UNCHANGED <<store, usedIds, failures>>

UpdateTask(s, id, updates) == UpdateTaskAt(s, id, updates) /\ now' = now

(* The store settles the write the call awaits. *)
StoreCommit(s) ==
    /\ calls[s].phase = "writing"
    /\ calls[s].kind \in {"updateTask", "deleteTask", "reorderSiblings",
                         "reorderInSection", "reorderInFocus"}
    /\ BatchOk(store, calls[s].writes)
    /\ store' = ApplyWrites(store, calls[s].writes)
    /\ calls' = [calls EXCEPT ![s] =
                    [@ EXCEPT !.phase = "done", !.log = Append(@, EvWrite(calls[s].writes))]]
    /\ UNCHANGED <<undoStack, redoStack, usedIds, now, failures, trail, started, limits, currentUser>>

(* a rejection after which undo / redo puts the operation back where it   *)
(* took it from                                                           *)
StoreRejectRestore(s) ==
    /\ calls[s].phase = "writing"
    /\ \/ ~BatchOk(store, calls[s].writes) /\ failures' = failures
       \/ failures < MaxFailures /\ failures' = failures + 1
    /\ calls' = [calls EXCEPT ![s] = [@ EXCEPT !.phase = "failed"]]
    /\ undoStack' = IF calls[s].kind = "undo" THEN Append(undoStack, calls[s].op)
                    ELSE undoStack
    /\ redoStack' = IF calls[s].kind = "redo" THEN Append(redoStack, calls[s].op)
                    ELSE redoStack
    /\ UNCHANGED <<store, usedIds, now, trail, started, limits, currentUser>>

(* a rejection that also takes back what the call had written before *)
StoreRejectRollback(s) ==
    /\ calls[s].phase = "writing"
    /\ \/ ~BatchOk(store, calls[s].writes) /\ failures' = failures
       \/ failures < MaxFailures /\ failures' = failures + 1
    /\ store' = calls[s].pre
    /\ calls' = [calls EXCEPT ![s] = [@ EXCEPT !.phase = "failed"]]
    /\ UNCHANGED <<undoStack, redoStack, usedIds, now, trail, started, limits, currentUser>>

(* The store rejects the write the call awaits: the promise rejects. *)
StoreReject(s) ==
    /\ calls[s].phase = "writing"
    /\ \/ ~BatchOk(store, calls[s].writes) /\ failures' = failures
       \/ failures < MaxFailures /\ failures' = failures + 1
    /\ calls' = [calls EXCEPT ![s] = [@ EXCEPT !.phase = "failed"]]
    /\ UNCHANGED <<store, undoStack, redoStack, usedIds, now, trail, started, limits, currentUser>>

(* actions.toggleTaskCompletion *)
ToggleTaskCompletion(s, id, completed) == UpdateTask(s, id, [completed |-> completed])

(* actions.toggleFocus *)
ToggleFocus(s, id, isFocused) ==
    IF isFocused
    THEN /\ UpdateTaskAt(s, id, [isFocused |-> TRUE, focusOrder |-> now])
         /\ now' = Tick(now)
    ELSE /\ UpdateTaskAt(s, id, [isFocused |-> FALSE])
         /\ now' = now

----------------------------------------------------------------------------
(* actions.deleteTask *)

(* The breadth-first loop over toDeleteIds.  Once the list is longer than   *)
(* the number of documents plus the starting id, an id is in it twice and   *)
(* the loop never ends.                                                     *)
(* no loop: the starting id alone *)
BFSNone(st, toDeleteIds, index) == [ends |-> TRUE, ids |-> toDeleteIds]

(* the loop stopping after the children of the starting id *)
BFSChildrenOnly(st, toDeleteIds, index) ==
    [ends |-> TRUE, ids |-> toDeleteIds \o InIdOrder(WhereParent(st, toDeleteIds[1]))]

RECURSIVE BFS(_, _, _)
BFS(st, toDeleteIds, index) ==
    IF Len(toDeleteIds) > Cardinality(DOMAIN st) + 1 THEN [ends |-> FALSE, ids |-> toDeleteIds]
    ELSE IF index >= Len(toDeleteIds) THEN [ends |-> TRUE, ids |-> toDeleteIds]
    ELSE BFS(st, toDeleteIds \o InIdOrder(WhereParent(st, toDeleteIds[index + 1])), index + 1)

DeleteTask(s, id) ==
    /\ CanEnter(s)
    /\ LET found == BFS(store, <<id>>, 0)
           present == SelectIdx(Len(found.ids), LAMBDA i : Exists(store, found.ids[i]))
           batchOps == [i \in 1..Len(present) |-> OpDelete(store[found.ids[present[i]]])]
           writes == [i \in 1..Len(present) |-> WDelete(found.ids[present[i]])]
       IN /\ IF ~SignedIn
             THEN /\ Unauthenticated(s, "deleteTask", [id |-> id])
                  /\ UNCHANGED <<undoStack, redoStack>>
             ELSE IF ~found.ends
             THEN /\ Enter(s, Begin("deleteTask", [id |-> id])
                                @@ [phase |-> "diverged", log |-> <<>>])
                  /\ UNCHANGED <<undoStack, redoStack>>
             ELSE /\ Enter(s, Begin("deleteTask", [id |-> id])
                                @@ [phase |-> "writing", log |-> <<EvPush, EvNotify>>,
                                    op |-> OpBatch(batchOps), writes |-> writes])
                  /\ undoStack' = PushUndo(undoStack, OpBatch(batchOps))
                  /\ redoStack' = PushRedo(redoStack)
          /\ UNCHANGED <<store, usedIds, now, failures>>

----------------------------------------------------------------------------
(* actions.addTask *)

(* the smallest sibling order taken for the largest *)
MinOrder(st, ids) ==
    IF ids = {} THEN 0
    ELSE CHOOSE m \in {st[i].order : i \in ids} : \A i \in ids : st[i].order >= m

(* Math.max(0, ...siblings.map(s => s.order)) *)
MaxOrder(st, ids) ==
    IF \A i \in ids : st[i].order <= 0 THEN 0
    ELSE CHOOSE m \in {st[i].order : i \in ids} : \A i \in ids : st[i].order <= m

(* the filter with > for >=: the sibling already at orderToUse stays *)
SiblingsToShiftAbove(st, siblings, orderToUse) ==
    SelectIdx(Len(siblings), LAMBDA i : st[siblings[i]].order > orderToUse)

(* siblings.filter(s => s.order >= orderToUse), as indexes into siblings *)
SiblingsToShift(st, siblings, orderToUse) ==
    SelectIdx(Len(siblings), LAMBDA i : st[siblings[i]].order >= orderToUse)

(* insertAfterOrder is <<>> when the argument is not given, <<k>> when it is *)
AddTask(s, text, parentId, dueDate, insertAfterOrder) ==
    /\ CanEnter(s)
    /\ IF ~SignedIn
       THEN /\ Unauthenticated(s, "addTask", [text |-> text, parentId |-> parentId,
                                              dueDate |-> dueDate,
                                              insertAfterOrder |-> insertAfterOrder])
            /\ UNCHANGED <<store, undoStack, redoStack, usedIds, now, failures>>
       ELSE
       \E id \in GenerateId(usedIds) :
           LET t == now
               siblings == InIdOrder(WhereParent(store, parentId))
               given == insertAfterOrder # <<>>
               orderToUse == IF given THEN insertAfterOrder[1] + 1
                             ELSE MaxOrder(store, Range(siblings)) + 1
               toShift == IF given THEN SiblingsToShift(store, siblings, orderToUse)
                          ELSE <<>>
               shiftOps == [i \in 1..Len(toShift) |->
                               OpUpdate(siblings[toShift[i]],
                                        [order |-> store[siblings[toShift[i]]].order],
                                        [order |-> store[siblings[toShift[i]]].order + 1])]
               shiftWrites == [i \in 1..Len(toShift) |->
                               WUpdate(siblings[toShift[i]],
                                       [order |-> store[siblings[toShift[i]]].order + 1])]
               newTask == NewTask(id, parentId, text, dueDate, orderToUse, t)
               batchOps == Append(shiftOps, OpAdd(newTask))
           IN /\ Enter(s, Begin("addTask", [text |-> text, parentId |-> parentId,
                                            dueDate |-> dueDate,
                                            insertAfterOrder |-> insertAfterOrder])
                            @@ [phase |-> "writing", log |-> <<>>, op |-> OpBatch(batchOps),
                                writes |-> Append(shiftWrites, WSet(id, newTask)),
                                newTask |-> newTask])
              /\ usedIds' = usedIds \cup {id}
              /\ now' = Tick(now)
              /\ UNCHANGED <<store, undoStack, redoStack, failures>>

(* fbatch.commit() of addTask settles *)
AddTaskCommit(s) ==
    /\ calls[s].phase = "writing"
    /\ calls[s].kind = "addTask"
    /\ BatchOk(store, calls[s].writes)
    /\ store' = ApplyWrites(store, calls[s].writes)
    /\ calls' = [calls EXCEPT ![s] =
                    [@ EXCEPT !.phase = "committed",
                              !.log = Append(@, EvWrite(calls[s].writes))]]
    /\ UNCHANGED <<undoStack, redoStack, usedIds, now, failures, trail, started, limits, currentUser>>

(* the continuation recording the creation alone, without the sibling shifts *)
AddTaskPushAddOnly(s) ==
    /\ calls[s].phase = "committed"
    /\ calls[s].kind = "addTask"
    /\ undoStack' = PushUndo(undoStack, OpBatch(<<OpAdd(calls[s].newTask)>>))
    /\ redoStack' = PushRedo(redoStack)
    /\ calls' = [calls EXCEPT ![s] =
                    [@ EXCEPT !.phase = "done", !.log = @ \o <<EvPush, EvNotify>>]]
    /\ UNCHANGED <<store, usedIds, now, failures, trail, started, limits, currentUser>>

(* the continuation of addTask after the commit: history.push, return *)
AddTaskPush(s) ==
    /\ calls[s].phase = "committed"
    /\ calls[s].kind = "addTask"
    /\ undoStack' = PushUndo(undoStack, calls[s].op)
    /\ redoStack' = PushRedo(redoStack)
    /\ calls' = [calls EXCEPT ![s] =
                    [@ EXCEPT !.phase = "done", !.log = @ \o <<EvPush, EvNotify>>]]
    /\ UNCHANGED <<store, usedIds, now, failures, trail, started, limits, currentUser>>

----------------------------------------------------------------------------
(* actions.reorderSiblings / reorderInSection / reorderInFocus *)

(* the loop counting from 1: the values written are 1..n *)
ReassignFromOne(st, listToReorder, field) ==
    LET changed == SelectIdx(Len(listToReorder),
                             LAMBDA i : st[listToReorder[i]][field] # i)
    IN [i \in 1..Len(changed) |->
            OpUpdate(listToReorder[changed[i]],
                     [f \in {field} |-> st[listToReorder[changed[i]]][field]],
                     [f \in {field} |-> changed[i]])]

(* the loop without the test: an UPDATE for every task of the list *)
ReassignAll(st, listToReorder, field) ==
    [i \in 1..Len(listToReorder) |->
        OpUpdate(listToReorder[i],
                 [f \in {field} |-> st[listToReorder[i]][field]],
                 [f \in {field} |-> i - 1])]

(* the loop recording the new value as the previous one *)
ReassignNoPrev(st, listToReorder, field) ==
    LET changed == SelectIdx(Len(listToReorder),
                             LAMBDA i : st[listToReorder[i]][field] # i - 1)
    IN [i \in 1..Len(changed) |->
            OpUpdate(listToReorder[changed[i]],
                     [f \in {field} |-> changed[i] - 1],
                     [f \in {field} |-> changed[i] - 1])]

(* The loop that reassigns 0..n-1 to `field` over listToReorder and records *)
(* an UPDATE for every task whose value differs from its index.             *)
Reassign(st, listToReorder, field) ==
    LET changed == SelectIdx(Len(listToReorder),
                             LAMBDA i : st[listToReorder[i]][field] # i - 1)
    IN [i \in 1..Len(changed) |->
            OpUpdate(listToReorder[changed[i]],
                     [f \in {field} |-> st[listToReorder[changed[i]]][field]],
                     [f \in {field} |-> changed[i] - 1])]

(* a batch that holds the first update only *)
UpdateWritesFirstOnly(ops) ==
    [i \in 1..(IF ops = <<>> THEN 0 ELSE 1) |-> WUpdate(ops[i].taskId, ops[i].newUpdateSnapshot)]

(* fbatch.update(doc, {field: i}) for every recorded UPDATE *)
UpdateWrites(ops) == [i \in 1..Len(ops) |-> WUpdate(ops[i].taskId, ops[i].newUpdateSnapshot)]

(* the tail without the batchOps.length guard: an empty batch is pushed too *)
ReorderAlwaysPush(s, kind, args, batchOps) ==
    /\ Enter(s, Begin(kind, args)
                  @@ [phase |-> "writing", log |-> <<EvPush, EvNotify>>,
                      op |-> OpBatch(batchOps), writes |-> UpdateWrites(batchOps)])
    /\ undoStack' = PushUndo(undoStack, OpBatch(batchOps))
    /\ redoStack' = PushRedo(redoStack)
    /\ UNCHANGED <<store, usedIds, now, failures>>

(* getTasksCollection() on the first line, and the common tail: nothing to   *)
(* record is a return without a push or a write; otherwise history.push and  *)
(* then fbatch.commit().                                                     *)
Reorder(s, kind, args, batchOps) ==
    /\ IF ~SignedIn
       THEN /\ Unauthenticated(s, kind, args)
            /\ UNCHANGED <<undoStack, redoStack>>
       ELSE IF batchOps = <<>>
       THEN /\ Enter(s, Begin(kind, args) @@ [phase |-> "done", log |-> <<>>])
            /\ UNCHANGED <<undoStack, redoStack>>
       ELSE /\ Enter(s, Begin(kind, args)
                          @@ [phase |-> "writing", log |-> <<EvPush, EvNotify>>,
                              op |-> OpBatch(batchOps), writes |-> UpdateWrites(batchOps)])
            /\ undoStack' = PushUndo(undoStack, OpBatch(batchOps))
            /\ redoStack' = PushRedo(redoStack)
    /\ UNCHANGED <<store, usedIds, now, failures>>

ReorderSiblings(s, draggedId, newParentId, dropIndex) ==
    /\ CanEnter(s)
    /\ LET args == [draggedId |-> draggedId, newParentId |-> newParentId,
                    dropIndex |-> dropIndex]
       IN IF ~Exists(store, draggedId)
          THEN Reorder(s, "reorderSiblings", args, <<>>)
          ELSE LET originalParent == store[draggedId].parentId
                   listToReorder ==
                       Splice(SortBy(store, WhereParent(store, newParentId) \ {draggedId}, "order"),
                              dropIndex, draggedId)
                   parentOps == IF originalParent # newParentId
                                THEN <<OpUpdate(draggedId, [parentId |-> originalParent],
                                                [parentId |-> newParentId])>>
                                ELSE <<>>
               IN Reorder(s, "reorderSiblings", args,
                          parentOps \o Reassign(store, listToReorder, "order"))

(* targetTasks of reorderInSection: the tasks of the date, or the undated *)
InSection(st, targetDate) ==
    IF targetDate # NoDate THEN {i \in DOMAIN st : st[i].dueDate = targetDate}
    ELSE {i \in DOMAIN st : st[i].dueDate = NoDate}

(* reorderInSection sorting and reassigning `order`, as reorderSiblings does *)
ReorderInSectionByOrder(s, draggedId, targetDate, dropIndex) ==
    /\ CanEnter(s)
    /\ LET args == [draggedId |-> draggedId, targetDate |-> targetDate, dropIndex |-> dropIndex]
       IN IF ~Exists(store, draggedId)
          THEN Reorder(s, "reorderInSection", args, <<>>)
          ELSE LET listToReorder ==
                       Splice(SortBy(store, InSection(store, targetDate) \ {draggedId},
                                     "order"),
                              dropIndex, draggedId)
               IN Reorder(s, "reorderInSection", args,
                          Reassign(store, listToReorder, "order"))

ReorderInSection(s, draggedId, targetDate, dropIndex) ==
    /\ CanEnter(s)
    /\ LET args == [draggedId |-> draggedId, targetDate |-> targetDate, dropIndex |-> dropIndex]
       IN IF ~Exists(store, draggedId)
          THEN Reorder(s, "reorderInSection", args, <<>>)
          ELSE LET listToReorder ==
                       Splice(SortBy(store, InSection(store, targetDate) \ {draggedId},
                                     "sectionOrder"),
                              dropIndex, draggedId)
               IN Reorder(s, "reorderInSection", args,
                          Reassign(store, listToReorder, "sectionOrder"))

(* the focus queue renumbered through the hierarchical order field *)
ReorderInFocusByOrder(s, draggedId, dropIndex) ==
    /\ CanEnter(s)
    /\ LET args == [draggedId |-> draggedId, dropIndex |-> dropIndex]
       IN IF ~Exists(store, draggedId)
          THEN Reorder(s, "reorderInFocus", args, <<>>)
          ELSE LET listToReorder ==
                       Splice(SortBy(store, {i \in DOMAIN store : store[i].isFocused}
                                                \ {draggedId}, "focusOrder"),
                              dropIndex, draggedId)
               IN Reorder(s, "reorderInFocus", args,
                          Reassign(store, listToReorder, "order"))

ReorderInFocus(s, draggedId, dropIndex) ==
    /\ CanEnter(s)
    /\ LET args == [draggedId |-> draggedId, dropIndex |-> dropIndex]
       IN IF ~Exists(store, draggedId)
          THEN Reorder(s, "reorderInFocus", args, <<>>)
          ELSE LET listToReorder ==
                       Splice(SortBy(store, {i \in DOMAIN store : store[i].isFocused}
                                                \ {draggedId}, "focusOrder"),
                              dropIndex, draggedId)
               IN Reorder(s, "reorderInFocus", args,
                          Reassign(store, listToReorder, "focusOrder"))

----------------------------------------------------------------------------
(* actions.getAllTags *)

(* the strings of the model as UTF-16 code units *)
CodeUnits(str) ==
    CASE str = "A" -> <<65>> [] str = "B" -> <<66>> [] str = "a" -> <<97>>
      [] str = "b" -> <<98>> [] str = "ab" -> <<97, 98>> [] OTHER -> <<>>

(* a < b for strings: the first differing code unit decides, a prefix is less *)
RECURSIVE Less(_, _)
Less(a, b) ==
    IF b = <<>> THEN FALSE
    ELSE IF a = <<>> THEN TRUE
    ELSE IF a[1] # b[1] THEN a[1] < b[1]
    ELSE Less(Tail(a), Tail(b))

(* an array standing for the Set: a value joins it every time it is added *)
SetAddAgain(set, x) == Append(set, x)

(* Set.add: insertion order, a value already there is not added again *)
SetAdd(set, x) == IF \E i \in DOMAIN set : set[i] = x THEN set ELSE Append(set, x)

RECURSIVE AddAll(_, _)
AddAll(set, tagList) ==
    IF tagList = <<>> THEN set ELSE AddAll(SetAdd(set, Head(tagList)), Tail(tagList))

(* allSnap.docs.forEach(d => (task.tags || []).forEach(tag => tags.add(tag))) *)
RECURSIVE CollectTags(_, _, _)
CollectTags(st, docs, set) ==
    IF docs = <<>> THEN set
    ELSE CollectTags(st, Tail(docs),
                     AddAll(set, IF "tags" \in DOMAIN st[Head(docs)]
                                 THEN st[Head(docs)].tags ELSE <<>>))

RECURSIVE Insert(_, _)
Insert(sorted, x) ==
    IF sorted = <<>> THEN <<x>>
    ELSE IF Less(CodeUnits(x), CodeUnits(Head(sorted))) THEN <<x>> \o sorted
    ELSE <<Head(sorted)>> \o Insert(Tail(sorted), x)

(* Array.prototype.sort() without a comparator: ascending by code units *)
RECURSIVE ArraySort(_)
ArraySort(seq) == IF seq = <<>> THEN <<>> ELSE Insert(ArraySort(Tail(seq)), Head(seq))

(* The try block reads the whole collection; the catch block turns the      *)
(* throw of getTasksCollection() into an empty array.                       *)
GetAllTags(s) ==
    /\ CanEnter(s)
    /\ Enter(s, Begin("getAllTags", <<>>)
                  @@ [phase |-> "done", log |-> <<>>,
                      result |-> IF ~SignedIn THEN <<>>
                                 ELSE ArraySort(CollectTags(store, InIdOrder(DOMAIN store),
                                                            <<>>))])
    /\ UNCHANGED <<store, undoStack, redoStack, usedIds, now, failures>>

----------------------------------------------------------------------------
(* AuthLogin.handleSubmit: signInWithEmailAndPassword resolves *)

SignIn ==
    /\ currentUser = NoUser
    /\ currentUser' = User
    /\ UNCHANGED <<store, undoStack, redoStack, calls, usedIds, now, failures, started,
                   limits, trail>>

----------------------------------------------------------------------------
(* HistoryManager.undo / redo *)

(* getDocRef(taskId) throws "No authenticated user" when nobody is signed in *)
GetDocRef(user) == GetUserId(user)

(* applyInverse / applyForward called without await: the call goes on to    *)
(* the lines after it at once                                               *)
ReplayUnawaited(kind, op, writes) ==
    Begin(kind, <<>>) @@
        [op |-> op, log |-> <<>>, phase |-> "applied", writes |-> <<>>, rest |-> <<>>]

(* The call after pop(): it awaits the first write of the replay, or, when  *)
(* the replay has no write, is about to run the lines after the await; when *)
(* getDocRef throws for the first write, the call has failed.               *)
Replay(kind, op, writes) ==
    Begin(kind, <<>>) @@
        [op |-> op, log |-> <<>>,
         phase |-> IF writes = <<>> THEN "applied"
                   ELSE IF GetDocRef(currentUser).throws THEN "failed" ELSE "writing",
         writes |-> IF writes = <<>> THEN <<>> ELSE <<Head(writes)>>,
         rest |-> IF writes = <<>> THEN <<>> ELSE Tail(writes)]

Undo(s) ==
    /\ CanEnter(s)
    /\ IF undoStack = <<>>
       THEN /\ Enter(s, Begin("undo", <<>>) @@ [phase |-> "done", log |-> <<>>])
            /\ undoStack' = undoStack
       ELSE /\ Enter(s, Replay("undo", Top(undoStack), InverseWrites(Top(undoStack))))
            /\ undoStack' = Pop(undoStack)
    /\ UNCHANGED <<store, redoStack, usedIds, now, failures>>

Redo(s) ==
    /\ CanEnter(s)
    /\ IF redoStack = <<>>
       THEN /\ Enter(s, Begin("redo", <<>>) @@ [phase |-> "done", log |-> <<>>])
            /\ redoStack' = redoStack
       ELSE /\ Enter(s, Replay("redo", Top(redoStack), ForwardWrites(Top(redoStack))))
            /\ redoStack' = Pop(redoStack)
    /\ UNCHANGED <<store, undoStack, usedIds, now, failures>>

(* The store settles the write applyInverse / applyForward awaits; the      *)
(* function goes on to its next write, or returns to undo / redo.           *)
ReplayStep(s) ==
    /\ calls[s].phase = "writing"
    /\ calls[s].kind \in {"undo", "redo"}
    /\ BatchOk(store, calls[s].writes)
    /\ store' = ApplyWrites(store, calls[s].writes)
    /\ calls' = [calls EXCEPT ![s] =
                    [@ EXCEPT !.log = Append(@, EvWrite(calls[s].writes)),
                              !.phase = IF calls[s].rest = <<>> THEN "applied"
                                        ELSE IF GetDocRef(currentUser).throws THEN "failed"
                                        ELSE "writing",
                              !.writes = IF calls[s].rest = <<>> THEN <<>>
                                         ELSE <<Head(calls[s].rest)>>,
                              !.rest = IF calls[s].rest = <<>> THEN <<>>
                                       ELSE Tail(calls[s].rest)]]
    /\ UNCHANGED <<undoStack, redoStack, usedIds, now, failures, trail, started, limits, currentUser>>

(* the continuation without redoStack.push(op) *)
UndoFinishNoPush(s) ==
    /\ calls[s].phase = "applied"
    /\ calls[s].kind = "undo"
    /\ redoStack' = redoStack
    /\ calls' = [calls EXCEPT ![s] = [@ EXCEPT !.phase = "done", !.log = Append(@, EvNotify)]]
    /\ UNCHANGED <<store, undoStack, usedIds, now, failures, trail, started, limits, currentUser>>

(* undo after `await this.applyInverse(op)`: redoStack.push(op); notify() *)
UndoFinish(s) ==
    /\ calls[s].phase = "applied"
    /\ calls[s].kind = "undo"
    /\ redoStack' = ArrayPush(redoStack, calls[s].op)
    /\ calls' = [calls EXCEPT ![s] = [@ EXCEPT !.phase = "done", !.log = Append(@, EvNotify)]]
    /\ UNCHANGED <<store, undoStack, usedIds, now, failures, trail, started, limits, currentUser>>

(* redo after `await this.applyForward(op)`: undoStack.push(op); notify() *)
RedoFinish(s) ==
    /\ calls[s].phase = "applied"
    /\ calls[s].kind = "redo"
    /\ undoStack' = ArrayPush(undoStack, calls[s].op)
    /\ calls' = [calls EXCEPT ![s] = [@ EXCEPT !.phase = "done", !.log = Append(@, EvNotify)]]
    /\ UNCHANGED <<store, redoStack, usedIds, now, failures, trail, started, limits, currentUser>>

----------------------------------------------------------------------------
(* The program, one call at a time: a call starts when no call is in flight *)

UpdateMaps == {[text |-> "B"], [text |-> "A", dueDate |-> NoDate]}
Parents == {root} \cup DOMAIN store
InsertAfter == {<<>>, <<0>>}
DropIndexes == 0..MaxTasks - 1

(* the slots a call can start in now *)
Entering == {s \in Slots : CanEnter(s)}

Step(s) ==
    \/ StoreCommit(s)
    \/ StoreReject(s)
    \/ AddTaskCommit(s)
    \/ AddTaskPush(s)
    \/ ReplayStep(s)
    \/ UndoFinish(s)
    \/ RedoFinish(s)

Next ==
    \/ \E s \in Entering, text \in Texts, p \in Parents, d \in Dates, ins \in InsertAfter :
            AddTask(s, text, p, d, ins)
    \/ \E s \in Entering, id \in Ids, u \in UpdateMaps : UpdateTask(s, id, u)
    \/ \E s \in Entering, id \in DOMAIN store :
            ToggleTaskCompletion(s, id, ~store[id].completed)
    \/ \E s \in Entering, id \in DOMAIN store : ToggleFocus(s, id, ~store[id].isFocused)
    \/ \E s \in Entering, id \in Ids : DeleteTask(s, id)
    \/ \E s \in Entering, id \in Ids, p \in Parents : ReorderSiblings(s, id, p, 0)
    \/ \E s \in Entering : Undo(s)
    \/ \E s \in Entering : Redo(s)
    \/ \E s \in Slots : Step(s)

Spec == Init /\ [][Next]_vars

(* The same program with the drag-and-drop calls: the three reorders at any *)
(* drop index, the updateTask of a drop on another section, a focus toggle, *)
(* undo and redo, on collections whose tasks share a due date or are in the *)
(* focus queue.                                                             *)
Focused(task, at) == [task EXCEPT !.isFocused = TRUE, !.focusOrder = at]

ReorderStores ==
    { StoreOf(<<Focused(NewTask(1, root, "A", 1, 1, Epoch - 3), Epoch - 2),
                Focused(NewTask(2, root, "", 1, 2, Epoch - 2), Epoch - 1),
                NewTask(3, root, "", 1, 3, Epoch - 1)>>),
      StoreOf(<<Focused(NewTask(1, root, "A", NoDate, 1, Epoch - 3), Epoch - 3),
                Focused(NewTask(2, 1, "", NoDate, 1, Epoch - 2), Epoch - 2),
                Focused(NewTask(3, root, "", 1, 2, Epoch - 1), Epoch - 1)>>),
      StoreOf(<<NewTask(1, root, "A", NoDate, 0, Epoch - 2),
                Focused(NewTask(2, root, "", NoDate, 1, Epoch - 1), Epoch - 1)>>) }

InitReorder ==
    /\ store \in {st \in ReorderStores : DOMAIN st \subseteq Ids}
    /\ undoStack = <<>>
    /\ redoStack = <<>>
    /\ calls = [s \in Slots |-> Idle]
    /\ usedIds = DOMAIN store
    /\ now = Epoch
    /\ failures = 0
    /\ started = 0
    /\ limits = [calls |-> MaxCalls, inFlight |-> 1]
    /\ trail = <<>>
    /\ currentUser = User

NextReorder ==
    \/ \E s \in Entering, id \in Ids : ReorderSiblings(s, id, root, 0)
    \/ \E s \in Entering, id \in Ids, d \in Dates, i \in DropIndexes :
            ReorderInSection(s, id, d, i)
    \/ \E s \in Entering, id \in Ids, i \in DropIndexes : ReorderInFocus(s, id, i)
    \/ \E s \in Entering, id \in Ids, u \in UpdateMaps : UpdateTask(s, id, u)
    \/ \E s \in Entering, id \in DOMAIN store : ToggleFocus(s, id, ~store[id].isFocused)
    \/ \E s \in Entering : Undo(s)
    \/ \E s \in Entering : Redo(s)
    \/ \E s \in Slots : StoreCommit(s)
    \/ \E s \in Slots : StoreReject(s)
    \/ \E s \in Slots : ReplayStep(s)
    \/ \E s \in Slots : UndoFinish(s)
    \/ \E s \in Slots : RedoFinish(s)

SpecReorder == InitReorder /\ [][NextReorder]_vars

(* A long session on one task: completion toggles, undo and redo, with no   *)
(* limit on the number of calls, so that the history reaches MAX_HISTORY,   *)
(* and no store failure.                                                    *)
InitHist ==
    /\ store = StoreOf(<<NewTask(1, root, "A", NoDate, 1, Epoch - 1)>>)
    /\ undoStack = <<>>
    /\ redoStack = <<>>
    /\ calls = [s \in Slots |-> Idle]
    /\ usedIds = DOMAIN store
    /\ now = Epoch
    /\ failures = MaxFailures
    /\ started = 0
    /\ limits = [calls |-> 0, inFlight |-> 1]
    /\ trail = <<>>
    /\ currentUser = User

NextHist ==
    \/ \E s \in Entering, id \in DOMAIN store :
            ToggleTaskCompletion(s, id, ~store[id].completed)
    \/ \E s \in Entering : Undo(s)
    \/ \E s \in Entering : Redo(s)
    \/ \E s \in Slots : StoreCommit(s)
    \/ \E s \in Slots : ReplayStep(s)
    \/ \E s \in Slots : UndoFinish(s)
    \/ \E s \in Slots : RedoFinish(s)

SpecHist == InitHist /\ [][NextHist]_vars

(* The tree-editing calls on collections that hold siblings: addTask with   *)
(* and without insertAfterOrder, deleteTask, reorderSiblings of any task    *)
(* under 'root' or any task at any drop index, undo and redo.               *)
TreeStores ==
    { StoreOf(<<NewTask(1, root, "A", NoDate, 0, Epoch - 2),
                NewTask(2, root, "", NoDate, 1, Epoch - 1)>>),
      StoreOf(<<NewTask(1, root, "A", NoDate, 1, Epoch - 3),
                NewTask(2, root, "", NoDate, 2, Epoch - 2),
                NewTask(3, root, "", NoDate, 3, Epoch - 1)>>),
      StoreOf(<<NewTask(1, root, "A", NoDate, 1, Epoch - 3),
                NewTask(2, 1, "", NoDate, 1, Epoch - 2),
                NewTask(3, 2, "", NoDate, 1, Epoch - 1)>>) }

InsertAfterTree == {<<>>, <<-1>>, <<0>>}

InitTree ==
    /\ store \in {st \in TreeStores : DOMAIN st \subseteq Ids}
    /\ undoStack = <<>>
    /\ redoStack = <<>>
    /\ calls = [s \in Slots |-> Idle]
    /\ usedIds = DOMAIN store
    /\ now = Epoch
    /\ failures = 0
    /\ started = 0
    /\ limits = [calls |-> MaxCalls, inFlight |-> 1]
    /\ trail = <<>>
    /\ currentUser = User

NextTree ==
    \/ \E s \in Entering, p \in Parents, ins \in InsertAfterTree :
            AddTask(s, "", p, NoDate, ins)
    \/ \E s \in Entering, id \in Ids : DeleteTask(s, id)
    \/ \E s \in Entering, id \in Ids, p \in Parents, i \in DropIndexes :
            ReorderSiblings(s, id, p, i)
    \/ \E s \in Entering : Undo(s)
    \/ \E s \in Entering : Redo(s)
    \/ \E s \in Slots : Step(s)

SpecTree == InitTree /\ [][NextTree]_vars

----------------------------------------------------------------------------
(* The view: useTasks and TaskTree.  A TreeNode is [task, children]; the    *)
(* task list is a sequence of Task records.                                 *)

(* Array.prototype.sort by a numeric field of the task: stable *)
RECURSIVE SortTasks(_, _)
SortTasks(list, key) ==
    IF list = <<>> THEN <<>>
    ELSE LET rest == SortTasks(Tail(list), key)
             before == SelectSeq(rest, LAMBDA t : t[key] < Head(list)[key])
             after == SelectSeq(rest, LAMBDA t : t[key] >= Head(list)[key])
         IN before \o <<Head(list)>> \o after

(* the documents of the collection as useCollectionData delivers them *)
Docs(st) == LET ids == InIdOrder(DOMAIN st) IN [i \in 1..Len(ids) |-> st[ids[i]]]

(* parseLocal: the local midnight that starts the day; a day has DayLength  *)
(* instants, startOfDay and endOfDay are its first and its last             *)
DayLength == 2
ParseLocal(d) == d * DayLength
StartOfDay(today) == today * DayLength
EndOfDay(today) == today * DayLength + (DayLength - 1)

(* useTasks(filter, 'all'): sorted by order, then filtered by section *)
UseTasks(st, filter) ==
    LET tasks == SortTasks(Docs(st), "order")
    IN CASE filter = "all" -> tasks
         [] filter = "no-date" -> SelectSeq(tasks, LAMBDA t : t.dueDate = NoDate)
         [] filter = "focus" ->
                SortTasks(SelectSeq(tasks, LAMBDA t : t.isFocused), "focusOrder")

(* String.prototype.toLowerCase and includes, on texts of at most one letter *)
ToLowerCase(str) == CASE str = "A" -> "a" [] str = "B" -> "b" [] OTHER -> str
Includes(str, sub) ==
    LET a == CodeUnits(str)
        b == CodeUnits(sub)
    IN \E k \in 0..Len(a) - Len(b) : SubSeq(a, k + 1, k + Len(b)) = b

(* the search predicate; notes is '' on every task of the model *)
MatchesQuery(t, searchQuery) ==
    \/ Includes(ToLowerCase(t.text), ToLowerCase(searchQuery))
    \/ \E i \in DOMAIN t.tags : Includes(ToLowerCase(t.tags[i]), ToLowerCase(searchQuery))

(* the three date predicates of the inbox *)
IsPast(t, today) == t.dueDate # NoDate /\ ParseLocal(t.dueDate) < StartOfDay(today)
IsToday(t, today) ==
    /\ t.dueDate # NoDate
    /\ ~(ParseLocal(t.dueDate) < StartOfDay(today))
    /\ ~(ParseLocal(t.dueDate) > EndOfDay(today))
IsUpcoming(t, today) == t.dueDate # NoDate /\ ParseLocal(t.dueDate) > EndOfDay(today)

(* a node and, through the children arrays, the nodes below it, children   *)
(* sorted by order                                                          *)
RECURSIVE NodeOf(_, _)
NodeOf(list, t) ==
    LET below == SortTasks(SelectSeq(list, LAMBDA c : c.parentId # root /\ c.parentId = t.id),
                           "order")
    IN [task |-> t, children |-> [i \in 1..Len(below) |-> NodeOf(list, below[i])]]

(* the second loop of either assembly: a task is pushed on the children of  *)
(* the node of its parentId if the map has one, on the roots otherwise      *)
RootTasks(list) ==
    SelectSeq(list, LAMBDA t : t.parentId = root
                                \/ \A i \in 1..Len(list) : list[i].id # t.parentId)

(* the standard tree build: roots and children sorted by order *)
StandardTree(tasks) ==
    LET roots == SortTasks(RootTasks(tasks), "order")
    IN [i \in 1..Len(roots) |-> NodeOf(tasks, roots[i])]

(* buildStrictTreeFromMatch keeping the parentId of a task whose parent is *)
(* not kept: the task is still pushed on the roots                          *)
HoistedKeepParent(kept) == kept

(* keptTasks with the parentId each node is given *)
Hoisted(kept) ==
    [i \in 1..Len(kept) |->
        [kept[i] EXCEPT !.parentId =
            IF \E j \in 1..Len(kept) : kept[j].id = kept[i].parentId THEN @ ELSE root]]

(* buildStrictTreeFromMatch on the tasks that match: roots sorted by        *)
(* sectionOrder, children by order                                          *)
StrictTree(kept) ==
    LET list == Hoisted(kept)
        roots == SortTasks(RootTasks(list), "sectionOrder")
    IN [i \in 1..Len(roots) |-> NodeOf(list, roots[i])]

NoGroups == [past |-> <<>>, today |-> <<>>, upcoming |-> <<>>, nodate |-> <<>>]

(* the inbox with a no-date group built from the undated tasks only *)
GroupsUndatedOnly(tasks, isInbox, searchQuery, rootNodes, today) ==
    IF isInbox /\ searchQuery = ""
    THEN [past |-> StrictTree(SelectSeq(tasks, LAMBDA t : IsPast(t, today))),
          today |-> StrictTree(SelectSeq(tasks, LAMBDA t : IsToday(t, today))),
          upcoming |-> StrictTree(SelectSeq(tasks, LAMBDA t : IsUpcoming(t, today))),
          nodate |-> StandardTree(SelectSeq(tasks, LAMBDA t : t.dueDate = NoDate))]
    ELSE NoGroups

(* TaskTree: rootNodes and groups for the props it is rendered with *)
(* the build without the isFocusMode branch *)
RootNodesNoFocus(tasks, isFocusMode, searchQuery) ==
    IF searchQuery # ""
    THEN StrictTree(SelectSeq(tasks, LAMBDA t : MatchesQuery(t, searchQuery)))
    ELSE StandardTree(tasks)

RootNodes(tasks, isFocusMode, searchQuery) ==
    IF isFocusMode THEN [i \in 1..Len(tasks) |-> [task |-> tasks[i], children |-> <<>>]]
    ELSE IF searchQuery # ""
         THEN StrictTree(SelectSeq(tasks, LAMBDA t : MatchesQuery(t, searchQuery)))
         ELSE StandardTree(tasks)

Groups(tasks, isInbox, searchQuery, rootNodes, today) ==
    IF isInbox /\ searchQuery = ""
    THEN [past |-> StrictTree(SelectSeq(tasks, LAMBDA t : IsPast(t, today))),
          today |-> StrictTree(SelectSeq(tasks, LAMBDA t : IsToday(t, today))),
          upcoming |-> StrictTree(SelectSeq(tasks, LAMBDA t : IsUpcoming(t, today))),
          nodate |-> rootNodes]
    ELSE NoGroups

(* One render of App and TaskTree on the current collection *)
Render(s, filter, searchQuery, today) ==
    /\ CanEnter(s)
    /\ LET tasks == UseTasks(store, filter)
           rootNodes == RootNodes(tasks, filter = "focus", searchQuery)
       IN Enter(s, Begin("render", [filter |-> filter, searchQuery |-> searchQuery,
                                     today |-> today])
                     @@ [phase |-> "done", log |-> <<>>, tasks |-> tasks,
                         rootNodes |-> rootNodes,
                         groups |-> Groups(tasks, filter = "all", searchQuery,
                                           rootNodes, today)])
    /\ UNCHANGED <<store, undoStack, redoStack, usedIds, now, failures>>

(* Sessions that move tasks in the tree and render: collections with dated  *)
(* and undated tasks, reorderSiblings, and renders of the inbox, of the     *)
(* no-date section and of a search, on the day before the due dates, on     *)
(* one of them and after them.                                              *)
ViewStores ==
    { StoreOf(<<NewTask(1, root, "A", NoDate, 1, Epoch - 3),
                NewTask(2, 1, "B", 2, 1, Epoch - 2),
                NewTask(3, 2, "A", NoDate, 1, Epoch - 1)>>),
      StoreOf(<<NewTask(1, root, "A", 2, 2, Epoch - 3),
                NewTask(2, 1, "A", 2, 1, Epoch - 2),
                NewTask(3, root, "B", 3, 1, Epoch - 1)>>),
      StoreOf(<<NewTask(1, root, "B", 3, 1, Epoch - 2),
                NewTask(2, root, "A", NoDate, 2, Epoch - 1)>>) }

Filters == {"all", "no-date"}
Queries == {"", "a"}
Days == 1..4

InitView ==
    /\ store \in {st \in ViewStores : DOMAIN st \subseteq Ids}
    /\ undoStack = <<>>
    /\ redoStack = <<>>
    /\ calls = [s \in Slots |-> Idle]
    /\ usedIds = DOMAIN store
    /\ now = Epoch
    /\ failures = MaxFailures
    /\ started = 0
    /\ limits = [calls |-> MaxCalls, inFlight |-> 1]
    /\ trail = <<>>
    /\ currentUser = User

NextView ==
    \/ \E s \in Entering, f \in Filters, q \in Queries, today \in Days :
            Render(s, f, q, today)
    \/ \E s \in Entering, id \in DOMAIN store, p \in Parents :
            ReorderSiblings(s, id, p, 0)
    \/ \E s \in Slots : StoreCommit(s)

SpecView == InitView /\ [][NextView]_vars

----------------------------------------------------------------------------
(* Sessions in the focus view: collections with focused tasks, some of them *)
(* parent and child; toggleFocus, reorderInFocus and renders of the focus   *)
(* filter, with and without a search.                                       *)
InitFocus ==
    /\ store \in ReorderStores
    /\ undoStack = <<>>
    /\ redoStack = <<>>
    /\ calls = [s \in Slots |-> Idle]
    /\ usedIds = DOMAIN store
    /\ now = Epoch
    /\ failures = MaxFailures
    /\ started = 0
    /\ limits = [calls |-> MaxCalls, inFlight |-> 1]
    /\ trail = <<>>
    /\ currentUser = User

NextFocus ==
    \/ \E s \in Entering, q \in Queries : Render(s, "focus", q, 1)
    \/ \E s \in Entering, id \in DOMAIN store : ToggleFocus(s, id, ~store[id].isFocused)
    \/ \E s \in Entering, id \in DOMAIN store, i \in DropIndexes : ReorderInFocus(s, id, i)
    \/ \E s \in Slots : StoreCommit(s)

SpecFocus == InitFocus /\ [][NextFocus]_vars

----------------------------------------------------------------------------
(* Sessions of reorders alone, on a collection where a task has two         *)
(* children, the tasks have different dates and two of them are focused:    *)
(* every reorder, to every parent, date and position.                       *)
FrameStores ==
    { StoreOf(<<NewTask(1, root, "A", 1, 1, Epoch - 3),
                Focused(NewTask(2, 1, "", 1, 1, Epoch - 2), Epoch - 2),
                Focused(NewTask(3, 1, "", NoDate, 2, Epoch - 1), Epoch - 1)>>) }

InitFrame ==
    /\ store \in FrameStores
    /\ undoStack = <<>>
    /\ redoStack = <<>>
    /\ calls = [s \in Slots |-> Idle]
    /\ usedIds = DOMAIN store
    /\ now = Epoch
    /\ failures = MaxFailures
    /\ started = 0
    /\ limits = [calls |-> MaxCalls, inFlight |-> 1]
    /\ trail = <<>>
    /\ currentUser = User

NextFrame ==
    \/ \E s \in Entering, id \in Ids, p \in Parents, i \in DropIndexes :
            ReorderSiblings(s, id, p, i)
    \/ \E s \in Entering, id \in Ids, d \in Dates, i \in DropIndexes :
            ReorderInSection(s, id, d, i)
    \/ \E s \in Entering, id \in Ids, i \in DropIndexes : ReorderInFocus(s, id, i)
    \/ \E s \in Slots : StoreCommit(s)

SpecFrame == InitFrame /\ [][NextFrame]_vars

----------------------------------------------------------------------------
(* Sessions in which the store rejects nothing: every operation of the      *)
(* mutation engine, with 'root' or a task of the collection as parent, and  *)
(* undo and redo.                                                           *)
InitForest ==
    /\ store \in InitStores
    /\ undoStack = <<>>
    /\ redoStack = <<>>
    /\ calls = [s \in Slots |-> Idle]
    /\ usedIds = DOMAIN store
    /\ now = Epoch
    /\ failures = MaxFailures
    /\ started = 0
    /\ limits = [calls |-> MaxCalls, inFlight |-> 1]
    /\ trail = <<>>
    /\ currentUser = User

NextForest ==
    \/ \E s \in Entering, p \in Parents, ins \in InsertAfter : AddTask(s, "", p, NoDate, ins)
    \/ \E s \in Entering, id \in Ids, u \in UpdateMaps : UpdateTask(s, id, u)
    \/ \E s \in Entering, id \in Ids : DeleteTask(s, id)
    \/ \E s \in Entering, id \in Ids, p \in Parents : ReorderSiblings(s, id, p, 0)
    \/ \E s \in Entering, id \in Ids, d \in Dates : ReorderInSection(s, id, d, 0)
    \/ \E s \in Entering, id \in Ids : ReorderInFocus(s, id, 0)
    \/ \E s \in Entering : Undo(s)
    \/ \E s \in Entering : Redo(s)
    \/ \E s \in Slots : StoreCommit(s)
    \/ \E s \in Slots : AddTaskCommit(s)
    \/ \E s \in Slots : AddTaskPush(s)
    \/ \E s \in Slots : ReplayStep(s)
    \/ \E s \in Slots : UndoFinish(s)
    \/ \E s \in Slots : RedoFinish(s)

SpecForest == InitForest /\ [][NextForest]_vars

----------------------------------------------------------------------------
(* Sessions that start signed out or signed in, on collections with tags:   *)
(* every operation of the mutation engine, getAllTags, undo and redo, and   *)
(* the sign-in.                                                             *)
Tagged(task, tagList) == [task EXCEPT !.tags = tagList]

AuthStores ==
    { StoreOf(<<Tagged(NewTask(1, root, "A", NoDate, 1, Epoch - 2), <<"ab", "a">>),
                Tagged(NewTask(2, 1, "", 1, 1, Epoch - 1), <<"B", "ab">>)>>),
      StoreOf(<<Tagged(NewTask(1, root, "", 1, 1, Epoch - 3), <<"a">>),
                NewTask(2, root, "", 1, 2, Epoch - 2),
                Tagged(Focused(NewTask(3, root, "", NoDate, 3, Epoch - 1), Epoch - 1),
                       <<"a", "B">>)>>) }

InitAuth ==
    /\ store \in AuthStores
    /\ undoStack = <<>>
    /\ redoStack = <<>>
    /\ calls = [s \in Slots |-> Idle]
    /\ usedIds = DOMAIN store
    /\ now = Epoch
    /\ failures = 0
    /\ started = 0
    /\ limits = [calls |-> MaxCalls, inFlight |-> 1]
    /\ trail = <<>>
    /\ currentUser \in {NoUser, User}

NextAuth ==
    \/ \E s \in Entering, d \in Dates : AddTask(s, "", root, d, <<>>)
    \/ \E s \in Entering, id \in Ids, u \in UpdateMaps : UpdateTask(s, id, u)
    \/ \E s \in Entering, id \in Ids : DeleteTask(s, id)
    \/ \E s \in Entering, id \in Ids : ReorderSiblings(s, id, root, 0)
    \/ \E s \in Entering, id \in Ids, d \in Dates : ReorderInSection(s, id, d, 0)
    \/ \E s \in Entering, id \in Ids : ReorderInFocus(s, id, 0)
    \/ \E s \in Entering : GetAllTags(s)
    \/ \E s \in Entering : Undo(s)
    \/ \E s \in Entering : Redo(s)
    \/ SignIn
    \/ \E s \in Slots : Step(s)

SpecAuth == InitAuth /\ [][NextAuth]_vars

----------------------------------------------------------------------------
(* Sessions with two calls in flight at once: a handler starts a reorder,   *)
(* an undo or a redo while the call before it still awaits the store.  The  *)
(* collection is one an earlier session left, its section already           *)
(* renumbered by a reorderInSection.                                        *)
Sectioned(task, k) == [task EXCEPT !.sectionOrder = k]

RaceStores ==
    { StoreOf(<<Sectioned(NewTask(1, root, "A", 1, 1, Epoch - 3), 0),
                Sectioned(NewTask(2, 1, "", 1, 1, Epoch - 2), 1),
                Sectioned(NewTask(3, 1, "", 1, 2, Epoch - 1), 2)>>) }

MaxRaceCalls == 4

InitRace ==
    /\ store \in RaceStores
    /\ undoStack = <<>>
    /\ redoStack = <<>>
    /\ calls = [s \in Slots |-> Idle]
    /\ usedIds = DOMAIN store
    /\ now = Epoch
    /\ failures = MaxFailures
    /\ started = 0
    /\ limits = [calls |-> MaxRaceCalls, inFlight |-> Cardinality(Slots)]
    /\ trail = <<>>
    /\ currentUser = User

NextRace ==
    \/ \E s \in Entering, id \in Ids : ReorderSiblings(s, id, root, 0)
    \/ \E s \in Entering, id \in Ids : ReorderInSection(s, id, 1, 0)
    \/ \E s \in Entering : Undo(s)
    \/ \E s \in Entering : Redo(s)
    \/ \E s \in Slots : StoreCommit(s)
    \/ \E s \in Slots : ReplayStep(s)
    \/ \E s \in Slots : UndoFinish(s)
    \/ \E s \in Slots : RedoFinish(s)

SpecRace == InitRace /\ [][NextRace]_vars

----------------------------------------------------------------------------
(* Sessions that go on after MAX_HISTORY completion toggles of one task,    *)
(* with two calls in flight at once: the keyboard handler starts undo() and *)
(* redo() without awaiting them, and a click toggles the task meanwhile.    *)
FullHistory ==
    [k \in 1..MAX_HISTORY |->
        OpUpdate(1, [completed |-> (k % 2 = 0)], [completed |-> (k % 2 = 1)])]

InitCap ==
    /\ store = StoreOf(<<[NewTask(1, root, "A", NoDate, 1, Epoch - 1)
                            EXCEPT !.completed = (MAX_HISTORY % 2 = 1)]>>)
    /\ undoStack = FullHistory
    /\ redoStack = <<>>
    /\ calls = [s \in Slots |-> Idle]
    /\ usedIds = DOMAIN store
    /\ now = Epoch
    /\ failures = MaxFailures
    /\ started = 0
    /\ limits = [calls |-> MaxRaceCalls, inFlight |-> Cardinality(Slots)]
    /\ trail = <<>>
    /\ currentUser = User

NextCap ==
    \/ \E s \in Entering, id \in DOMAIN store :
            ToggleTaskCompletion(s, id, ~store[id].completed)
    \/ \E s \in Entering : Undo(s)
    \/ \E s \in Entering : Redo(s)
    \/ \E s \in Slots : StoreCommit(s)
    \/ \E s \in Slots : ReplayStep(s)
    \/ \E s \in Slots : UndoFinish(s)
    \/ \E s \in Slots : RedoFinish(s)

SpecCap == InitCap /\ [][NextCap]_vars

----------------------------------------------------------------------------
(* Properties.  With one call in flight at a time every call runs in slot 1; *)
(* trail[1] is the call that finished before it, trail[2] the one before.    *)

Cur == calls[1]

Done(c) == c.phase = "done"

(* the call recorded an Operation: its log holds a push *)
Pushed(c) == c.kind \notin {"idle", "undo", "redo"} /\ \E i \in 1..Len(c.log) : c.log[i] = EvPush

(* the n-th ancestor of task i in st (root once the chain leaves the store) *)
RECURSIVE Up(_, _, _)
Up(st, i, n) ==
    IF n = 0 THEN i
    ELSE LET below == Up(st, i, n - 1)
         IN IF below \in DOMAIN st THEN st[below].parentId ELSE root

Ancestors(st, i) == {Up(st, i, n) : n \in 1..Cardinality(DOMAIN st)} \ {root}

IsForest(st) == \A i \in DOMAIN st : i \notin Ancestors(st, i)

Subtree(st, id) == {id} \cup {i \in DOMAIN st : id \in Ancestors(st, i)}

Without(st, ids) == [i \in DOMAIN st \ ids |-> st[i]]

(* an updateTask call that found its task and resolved *)
UpdateDone(c) == c.kind = "updateTask" /\ Done(c) /\ Exists(c.pre, c.args.id)

(* C1: after updateTask(id, updates) resolves, undo() gives every field named *)
(* in updates the value it had before updateTask, a following redo() gives    *)
(* them the values of updates again, and neither changes anything else.       *)
C1_UpdateRoundTrip ==
    /\ (Cur.kind = "undo" /\ Done(Cur) /\ Len(trail) >= 1 /\ UpdateDone(trail[1]))
        => LET u == trail[1]
           IN /\ \A k \in DOMAIN u.args.updates : store[u.args.id][k] = u.pre[u.args.id][k]
              /\ store = u.pre
    /\ (Cur.kind = "redo" /\ Done(Cur) /\ Len(trail) >= 2 /\ trail[1].kind = "undo"
            /\ Done(trail[1]) /\ UpdateDone(trail[2]))
        => LET u == trail[2]
           IN /\ \A k \in DOMAIN u.args.updates : store[u.args.id][k] = u.args.updates[k]
              /\ \A i \in DOMAIN u.pre, k \in Fields :
                    (i # u.args.id \/ k \notin DOMAIN u.args.updates)
                        => (i \in DOMAIN store /\ store[i][k] = u.pre[i][k])
              /\ DOMAIN store = DOMAIN u.pre

C1_Witness ==
    /\ Cur.kind = "redo" /\ Done(Cur) /\ Len(trail) >= 2
    /\ trail[1].kind = "undo" /\ Done(trail[1]) /\ UpdateDone(trail[2])
    /\ Cardinality(DOMAIN trail[2].args.updates) = 2
    /\ \A k \in DOMAIN trail[2].args.updates :
            trail[2].pre[trail[2].args.id][k] # trail[2].args.updates[k]
    /\ trail[1].pre # trail[2].pre

(* C2: deleteTask(id) on a forest ends, and removes id and every task that    *)
(* reaches id through parentId links, and nothing else.                       *)
C2_DeleteRemovesSubtree ==
    (Cur.kind = "deleteTask" /\ IsForest(Cur.pre))
        => /\ Cur.phase # "diverged"
           /\ Done(Cur) => store = Without(Cur.pre, Subtree(Cur.pre, Cur.args.id))

C2_Witness ==
    /\ Cur.kind = "deleteTask" /\ Done(Cur) /\ IsForest(Cur.pre)
    /\ \E i \in DOMAIN Cur.pre :
            /\ Cur.pre[i].parentId # Cur.args.id
            /\ Cur.args.id \in Ancestors(Cur.pre, i)

(* C3: after deleteTask(id) resolves, one undo() recreates every removed task *)
(* with all its fields: the store is the store before deleteTask.             *)
C3_DeleteUndo ==
    (Cur.kind = "undo" /\ Done(Cur) /\ Len(trail) >= 1
        /\ trail[1].kind = "deleteTask" /\ Done(trail[1]))
        => store = trail[1].pre

C3_Witness ==
    /\ Cur.kind = "undo" /\ Done(Cur) /\ Len(trail) >= 1
    /\ trail[1].kind = "deleteTask" /\ Done(trail[1])
    /\ Cardinality(DOMAIN trail[1].pre \ DOMAIN Cur.pre) >= 2
    /\ \E i \in DOMAIN trail[1].pre \ DOMAIN Cur.pre : trail[1].pre[i].parentId # root

(* C4: with calls run one after another, neither stack ever holds more than *)
(* MAX_HISTORY operations, and a push onto an undo stack of n operations      *)
(* leaves n + 1 of them, or MAX_HISTORY when n was MAX_HISTORY already.       *)
C4_HistoryCap ==
    /\ Len(undoStack) <= MAX_HISTORY
    /\ Len(redoStack) <= MAX_HISTORY
    /\ Pushed(Cur) =>
            Len(undoStack) = IF Len(Cur.preUndo) < MAX_HISTORY
                             THEN Len(Cur.preUndo) + 1 ELSE MAX_HISTORY

C4_Witness ==
    /\ Pushed(Cur)
    /\ Len(Cur.preUndo) = MAX_HISTORY
    /\ Len(undoStack) = MAX_HISTORY

(* C5: a push onto a full undo stack o1..o50 leaves o2..o50 followed by the   *)
(* pushed operation.                                                          *)
C5_EvictionIsFifo ==
    (Pushed(Cur) /\ Len(Cur.preUndo) = MAX_HISTORY)
        => undoStack = Append(Tail(Cur.preUndo), Cur.op)

C5_Witness ==
    /\ Pushed(Cur)
    /\ Len(Cur.preUndo) = MAX_HISTORY
    /\ Cur.preUndo[1] # Cur.preUndo[2]
    /\ undoStack[1] = Cur.preUndo[2]
    /\ Top(undoStack) = Cur.op

(* C6: once a call has pushed its operation the redo stack is empty, and a    *)
(* redo() right after that call does nothing.                                 *)
C6_PushClearsRedo ==
    /\ Pushed(Cur) => redoStack = <<>>
    /\ (Cur.kind = "redo" /\ Len(trail) >= 1 /\ Pushed(trail[1]))
        => /\ Done(Cur) /\ Cur.log = <<>>
           /\ store = Cur.pre
           /\ undoStack = Cur.preUndo
           /\ redoStack = <<>>

C6_Witness ==
    /\ Cur.kind = "redo" /\ Len(trail) >= 1 /\ Pushed(trail[1])
    /\ Len(trail[1].preRedo) >= 2

(* C7: undo() on an empty undo stack changes nothing; otherwise it takes the  *)
(* top operation off the undo stack and, when it has finished, that operation *)
(* is on top of the redo stack, every other entry where it was.               *)
C7_Undo ==
    Cur.kind = "undo" =>
        IF Cur.preUndo = <<>>
        THEN /\ Done(Cur)
             /\ store = Cur.pre /\ undoStack = <<>> /\ redoStack = Cur.preRedo
        ELSE /\ undoStack = SubSeq(Cur.preUndo, 1, Len(Cur.preUndo) - 1)
             /\ Cur.op = Cur.preUndo[Len(Cur.preUndo)]
             /\ redoStack = IF Done(Cur) THEN Append(Cur.preRedo, Cur.op) ELSE Cur.preRedo

C7_Witness ==
    /\ Cur.kind = "undo" /\ Done(Cur)
    /\ Len(Cur.preUndo) >= 3 /\ Len(Cur.preRedo) >= 2
    /\ Cur.preUndo[1] # Cur.op

(* C8: redo() on an empty redo stack changes nothing; otherwise it takes the  *)
(* top operation off the redo stack, replays it forward and leaves it on top  *)
(* of the undo stack; undo() then redo() leaves both stacks as they were.     *)
C8_Redo ==
    /\ Cur.kind = "redo" =>
        IF Cur.preRedo = <<>>
        THEN /\ Done(Cur)
             /\ store = Cur.pre /\ undoStack = Cur.preUndo /\ redoStack = <<>>
        ELSE /\ redoStack = SubSeq(Cur.preRedo, 1, Len(Cur.preRedo) - 1)
             /\ Cur.op = Cur.preRedo[Len(Cur.preRedo)]
             /\ undoStack = IF Done(Cur) THEN Append(Cur.preUndo, Cur.op) ELSE Cur.preUndo
             /\ Done(Cur) => store = ApplyWrites(Cur.pre, ForwardWrites(Cur.op))
    /\ (Cur.kind = "redo" /\ Done(Cur) /\ Len(trail) >= 1
            /\ trail[1].kind = "undo" /\ Done(trail[1]) /\ trail[1].preUndo # <<>>)
        => /\ undoStack = trail[1].preUndo
           /\ redoStack = trail[1].preRedo

C8_Witness ==
    /\ Cur.kind = "redo" /\ Done(Cur) /\ Len(trail) >= 1
    /\ trail[1].kind = "undo" /\ Done(trail[1])
    /\ Len(trail[1].preUndo) >= 3 /\ Len(trail[1].preRedo) >= 2
    /\ store # Cur.pre

(* the writes a replay has had settled so far, in the order it issued them *)
Issued(c) == SelectSeq(c.log, LAMBDA e : e.ev = "write")

(* C9: undo of a BATCH issues the inverse writes of its sub-operations last   *)
(* sub-operation first, redo issues the forward writes first sub-operation    *)
(* first; one write at a time, each after the one before has settled.         *)
C9_BatchOrder ==
    /\ (Cur.kind = "undo" /\ Cur.preUndo # <<>> /\ Cur.op.type = "BATCH")
        => LET b == Cur.op.batchOperations
               n == Len(b)
               w == Issued(Cur)
           IN /\ Len(w) <= n
              /\ \A i \in 1..Len(w) : w[i].ws = InverseWrites(b[n + 1 - i])
              /\ Cur.phase = "writing" => Cur.writes = InverseWrites(b[n - Len(w)])
              /\ Cur.phase \in {"applied", "done"} => Len(w) = n
    /\ (Cur.kind = "redo" /\ Cur.preRedo # <<>> /\ Cur.op.type = "BATCH")
        => LET b == Cur.op.batchOperations
               n == Len(b)
               w == Issued(Cur)
           IN /\ Len(w) <= n
              /\ \A i \in 1..Len(w) : w[i].ws = ForwardWrites(b[i])
              /\ Cur.phase = "writing" => Cur.writes = ForwardWrites(b[Len(w) + 1])
              /\ Cur.phase \in {"applied", "done"} => Len(w) = n

C9_Witness ==
    /\ Cur.kind = "redo" /\ Done(Cur) /\ Cur.preRedo # <<>> /\ Cur.op.type = "BATCH"
    /\ Len(Cur.op.batchOperations) >= 3
    /\ Len(trail) >= 1 /\ trail[1].kind = "undo" /\ Done(trail[1])
    /\ Len(Issued(trail[1])) >= 3
    /\ Issued(trail[1])[1].ws[1].taskId # Issued(Cur)[1].ws[1].taskId

MutationKinds == {"addTask", "updateTask", "deleteTask", "reorderSiblings",
                  "reorderInSection", "reorderInFocus"}

(* C10: a mutation pushes its Operation only after its store write has been   *)
(* applied, so a mutation whose write fails leaves the undo stack as it was.  *)
C10_WriteThenRecord ==
    \A s \in Slots :
        calls[s].kind \in MutationKinds =>
            /\ \A i \in 1..Len(calls[s].log) :
                    calls[s].log[i] = EvPush
                        => \E j \in 1..(i - 1) : calls[s].log[j].ev = "write"
            /\ calls[s].phase = "failed" => undoStack = calls[s].preUndo

(* an addTask whose batch has been committed *)
Added(c) == c.kind = "addTask" /\ c.phase \in {"committed", "done"}

(* C11: addTask without insertAfterOrder gives the new task an order above  *)
(* that of every task that had the same parentId before the call, namely    *)
(* max(sibling orders, 0) + 1, and changes the order of no existing task.   *)
C11_AppendOrder ==
    (Added(Cur) /\ Cur.args.insertAfterOrder = <<>>)
        => LET n == Cur.newTask.id
               sib == WhereParent(Cur.pre, Cur.args.parentId)
           IN /\ n \notin DOMAIN Cur.pre
              /\ \A i \in sib : Cur.pre[i].order < store[n].order
              /\ \/ store[n].order = 1
                 \/ \E i \in sib : store[n].order = Cur.pre[i].order + 1
              /\ \A i \in DOMAIN Cur.pre :
                    i \in DOMAIN store /\ store[i].order = Cur.pre[i].order

C11_Witness ==
    /\ Added(Cur) /\ Cur.args.insertAfterOrder = <<>>
    /\ \E i, j \in WhereParent(Cur.pre, Cur.args.parentId) :
            Cur.pre[i].order < Cur.pre[j].order
    /\ store[Cur.newTask.id].order >= 2

(* C12: addTask with insertAfterOrder = k leaves exactly one task under     *)
(* parentId with order k+1, the new task; a sibling whose order was >= k+1  *)
(* has it increased by 1; every other task keeps its order.                 *)
C12_InsertAfterOrder ==
    (Added(Cur) /\ Cur.args.insertAfterOrder # <<>>)
        => LET n == Cur.newTask.id
               p == Cur.args.parentId
               k == Cur.args.insertAfterOrder[1]
           IN /\ n \notin DOMAIN Cur.pre
              /\ {i \in DOMAIN store : store[i].parentId = p /\ store[i].order = k + 1} = {n}
              /\ \A i \in DOMAIN Cur.pre :
                    /\ i \in DOMAIN store
                    /\ store[i].order =
                          IF Cur.pre[i].parentId = p /\ Cur.pre[i].order >= k + 1
                          THEN Cur.pre[i].order + 1 ELSE Cur.pre[i].order

C12_Witness ==
    /\ Added(Cur) /\ Cur.args.insertAfterOrder # <<>>
    /\ LET p == Cur.args.parentId
           k == Cur.args.insertAfterOrder[1]
       IN /\ \E i \in DOMAIN Cur.pre : Cur.pre[i].parentId = p /\ Cur.pre[i].order = k + 1
          /\ \E i \in DOMAIN Cur.pre : Cur.pre[i].parentId = p /\ Cur.pre[i].order < k + 1

(* C13: after reorderSiblings(draggedId, newParentId, dropIndex) of an       *)
(* existing task, with dropIndex between 0 and the number of other children *)
(* of newParentId, the children of newParentId are those others and the     *)
(* dragged task, their orders are exactly 0..n-1, the dragged task has      *)
(* order dropIndex and the others keep their relative order.                *)
C13_ReorderDense ==
    (Cur.kind = "reorderSiblings" /\ Done(Cur) /\ Exists(Cur.pre, Cur.args.draggedId))
        => LET d == Cur.args.draggedId
               p == Cur.args.newParentId
               others == WhereParent(Cur.pre, p) \ {d}
               kids == WhereParent(store, p)
           IN Cur.args.dropIndex \in 0..Cardinality(others)
                => /\ kids = others \cup {d}
                   /\ {store[i].order : i \in kids} = 0..(Cardinality(kids) - 1)
                   /\ \A i, j \in kids : store[i].order = store[j].order => i = j
                   /\ store[d].order = Cur.args.dropIndex
                   /\ \A i, j \in others :
                        Cur.pre[i].order < Cur.pre[j].order => store[i].order < store[j].order

C13_Witness ==
    /\ Cur.kind = "reorderSiblings" /\ Done(Cur) /\ Exists(Cur.pre, Cur.args.draggedId)
    /\ Cardinality(WhereParent(Cur.pre, Cur.args.newParentId) \ {Cur.args.draggedId}) = 2
    /\ Cur.args.dropIndex = 1
    /\ Cur.pre[Cur.args.draggedId].order # 1
    /\ WhereParent(store, Cur.args.newParentId) = DOMAIN store

(* C14: starting from a forest, no run of addTask, deleteTask,              *)
(* reorderSiblings, undo and redo makes a task its own ancestor.            *)
C14_Acyclic == IsForest(store)

(* C15: the breadth-first collection of deleteTask ends, and its work list  *)
(* never holds an id twice.                                                 *)
C15_BfsTerminates ==
    Cur.kind = "deleteTask"
        => /\ Cur.phase # "diverged"
           /\ LET found == BFS(Cur.pre, <<Cur.args.id>>, 0)
              IN /\ found.ends
                 /\ \A i, j \in 1..Len(found.ids) : found.ids[i] = found.ids[j] => i = j

(* the nodes of a forest in display order, each with the node it is under *)
RECURSIVE Walk(_, _)
Walk(nodes, under) ==
    IF nodes = <<>> THEN <<>>
    ELSE <<[id |-> Head(nodes).task.id, under |-> under,
            parentId |-> Head(nodes).task.parentId]>>
         \o Walk(Head(nodes).children, Head(nodes).task.id)
         \o Walk(Tail(nodes), under)

(* how many nodes of the forest show the task *)
Count(shown, id) == Cardinality({i \in 1..Len(shown) : shown[i].id = id})

Rendered(c) == c.kind = "render" /\ c.phase = "done"
Searching(c) == Rendered(c) /\ c.args.filter # "focus" /\ c.args.searchQuery # ""

(* C16: the strict-match forest of a search shows a task exactly once if    *)
(* the task matches the query and not at all if it does not.                *)
C16_StrictMembership ==
    Searching(Cur)
        => LET shown == Walk(Cur.rootNodes, root)
           IN \A i \in 1..Len(Cur.tasks) :
                Count(shown, Cur.tasks[i].id) =
                    IF MatchesQuery(Cur.tasks[i], Cur.args.searchQuery) THEN 1 ELSE 0

(* the task of the list with the given id matches the query *)
ParentMatches(tasks, t, searchQuery) ==
    \E j \in 1..Len(tasks) : tasks[j].id = t.parentId /\ MatchesQuery(tasks[j], searchQuery)

(* C17: in the strict-match forest a node is under the node of P only if P  *)
(* is the parentId of its task and P matches, and a matching task whose     *)
(* parent matches is under the node of that parent wherever that node is;   *)
(* a matching task whose parent does not match, is 'root' or is missing is  *)
(* a root, and a root's displayed parentId is 'root'.                       *)
C17_StrictStructure ==
    Searching(Cur)
        => LET shown == Walk(Cur.rootNodes, root)
               q == Cur.args.searchQuery
           IN /\ \A i \in 1..Len(Cur.tasks) :
                    MatchesQuery(Cur.tasks[i], q)
                        => IF ParentMatches(Cur.tasks, Cur.tasks[i], q)
                           THEN \A k \in 1..Len(shown) :
                                    shown[k].id = Cur.tasks[i].parentId
                                        => \E m \in 1..Len(shown) :
                                              /\ shown[m].id = Cur.tasks[i].id
                                              /\ shown[m].under = Cur.tasks[i].parentId
                           ELSE \E k \in 1..Len(shown) :
                                    /\ shown[k].id = Cur.tasks[i].id
                                    /\ shown[k].under = root
              /\ \A k \in 1..Len(shown) :
                    IF shown[k].under = root
                    THEN /\ shown[k].parentId = root
                         /\ \E i \in 1..Len(Cur.tasks) :
                              /\ Cur.tasks[i].id = shown[k].id
                              /\ ~ParentMatches(Cur.tasks, Cur.tasks[i], q)
                    ELSE \E i \in 1..Len(Cur.tasks) :
                              /\ Cur.tasks[i].id = shown[k].id
                              /\ Cur.tasks[i].parentId = shown[k].under
                              /\ ParentMatches(Cur.tasks, Cur.tasks[i], q)

(* the search A, B, C: C is hoisted over its parent B, which does not match *)
C17_Witness ==
    /\ Searching(Cur)
    /\ LET shown == Walk(Cur.rootNodes, root)
       IN /\ \E k \in 1..Len(shown), i \in 1..Len(Cur.tasks) :
                /\ shown[k].under = root /\ Cur.tasks[i].id = shown[k].id
                /\ Cur.tasks[i].parentId # root
          /\ \E k \in 1..Len(shown) : shown[k].under # root

(* a render of the standard tree: no search, no focus *)
Plain(c) == Rendered(c) /\ c.args.filter # "focus" /\ c.args.searchQuery = ""

InList(tasks, id) == \E j \in 1..Len(tasks) : tasks[j].id = id

(* C18: the standard tree shows every task of the list exactly once, under  *)
(* the node of its parentId if a task with that id is in the list and as a  *)
(* root otherwise.                                                          *)
C18_StandardAssembly ==
    Plain(Cur)
        => LET shown == Walk(Cur.rootNodes, root)
           IN /\ \A i \in 1..Len(Cur.tasks) :
                    /\ Count(shown, Cur.tasks[i].id) = 1
                    /\ \A k \in 1..Len(shown) :
                          shown[k].id = Cur.tasks[i].id
                              => shown[k].under =
                                    IF InList(Cur.tasks, Cur.tasks[i].parentId)
                                    THEN Cur.tasks[i].parentId ELSE root
              /\ \A k \in 1..Len(shown) : InList(Cur.tasks, shown[k].id)

(* a render of the inbox with its four groups *)
Inbox(c) == Rendered(c) /\ c.args.filter = "all" /\ c.args.searchQuery = ""

(* how many nodes of a group show the task *)
InGroup(c, group, id) == Count(Walk(c.groups[group], root), id)

(* C19: in the inbox a task with a dueDate is shown in exactly one of past, *)
(* today and upcoming: past when due < todayStart, today when               *)
(* todayStart <= due <= todayEnd, upcoming when due > todayEnd; a task      *)
(* without dueDate is shown in none of the three.                           *)
C19_DateBuckets ==
    Inbox(Cur)
        => \A i \in 1..Len(Cur.tasks) :
              LET t == Cur.tasks[i]
                  due == ParseLocal(t.dueDate)
                  todayStart == StartOfDay(Cur.args.today)
                  todayEnd == EndOfDay(Cur.args.today)
                  bucket == IF t.dueDate = NoDate THEN "none"
                            ELSE IF due < todayStart THEN "past"
                            ELSE IF due <= todayEnd THEN "today" ELSE "upcoming"
              IN \A g \in {"past", "today", "upcoming"} :
                    InGroup(Cur, g, t.id) = IF g = bucket THEN 1 ELSE 0

(* following parentId from id inside the list ends at 'root' or at an id    *)
(* the list does not hold, within n steps                                   *)
RECURSIVE ChainEnds(_, _, _)
ChainEnds(tasks, id, n) ==
    IF ~InList(tasks, id) THEN TRUE
    ELSE IF n = 0 THEN FALSE
    ELSE LET j == CHOOSE k \in 1..Len(tasks) : tasks[k].id = id
         IN ChainEnds(tasks, tasks[j].parentId, n - 1)

Rooted(tasks, t) == ChainEnds(tasks, t.parentId, Len(tasks))

C21_SectionDense ==
    (Cur.kind = "reorderInSection" /\ Done(Cur) /\ Exists(Cur.pre, Cur.args.draggedId))
        => LET d == Cur.args.draggedId
               group == InSection(store, Cur.args.targetDate)
               others == InSection(Cur.pre, Cur.args.targetDate) \ {d}
           IN (Cur.pre[d].dueDate = Cur.args.targetDate
                    /\ Cur.args.dropIndex \in 0..Cardinality(others))
                => /\ group = others \cup {d}
                   /\ {store[i].sectionOrder : i \in group} = 0..(Cardinality(group) - 1)
                   /\ \A i, j \in group : store[i].sectionOrder = store[j].sectionOrder => i = j
                   /\ store[d].sectionOrder = Cur.args.dropIndex
                   /\ \A i, j \in others :
                        Cur.pre[i].sectionOrder < Cur.pre[j].sectionOrder
                            => store[i].sectionOrder < store[j].sectionOrder

C21_Witness ==
    /\ Cur.kind = "reorderInSection" /\ Done(Cur) /\ Exists(Cur.pre, Cur.args.draggedId)
    /\ Cur.pre[Cur.args.draggedId].dueDate = Cur.args.targetDate
    /\ Cardinality(InSection(Cur.pre, Cur.args.targetDate)) = 3
    /\ Cur.args.dropIndex = 1
    /\ store[Cur.args.draggedId].sectionOrder = 1
    /\ Cur.pre[Cur.args.draggedId].sectionOrder > 1

(* the tasks in the focus queue *)
InFocus(st) == {i \in DOMAIN st : st[i].isFocused}

(* C22: after reorderInFocus(draggedId, dropIndex) of a focused task, with  *)
(* dropIndex in range, the focused tasks have focusOrder exactly 0..n-1,    *)
(* the dragged task at dropIndex, and no unfocused task has been written.   *)
C22_FocusDense ==
    (Cur.kind = "reorderInFocus" /\ Done(Cur) /\ Exists(Cur.pre, Cur.args.draggedId))
        => LET d == Cur.args.draggedId
               others == InFocus(Cur.pre) \ {d}
           IN (Cur.pre[d].isFocused /\ Cur.args.dropIndex \in 0..Cardinality(others))
                => /\ InFocus(store) = InFocus(Cur.pre)
                   /\ {store[i].focusOrder : i \in InFocus(store)}
                        = 0..(Cardinality(InFocus(store)) - 1)
                   /\ \A i, j \in InFocus(store) :
                        store[i].focusOrder = store[j].focusOrder => i = j
                   /\ store[d].focusOrder = Cur.args.dropIndex
                   /\ \A i \in DOMAIN Cur.pre \ InFocus(Cur.pre) :
                        i \in DOMAIN store /\ store[i] = Cur.pre[i]
                   /\ \A e \in Range(Issued(Cur)) :
                        \A k \in 1..Len(e.ws) : e.ws[k].taskId \in InFocus(Cur.pre)

C22_Witness ==
    /\ Cur.kind = "reorderInFocus" /\ Done(Cur) /\ Exists(Cur.pre, Cur.args.draggedId)
    /\ Cur.pre[Cur.args.draggedId].isFocused
    /\ Cardinality(InFocus(Cur.pre)) = 2
    /\ DOMAIN Cur.pre \ InFocus(Cur.pre) # {}
    /\ Cur.args.dropIndex = 0
    /\ Len(Issued(Cur)) = 1 /\ Len(Issued(Cur)[1].ws) = 2

(* the id a call is about *)
Target(c) == IF c.kind = "updateTask" THEN c.args.id ELSE c.args.draggedId

(* C23: updateTask, reorderSiblings, reorderInSection and reorderInFocus    *)
(* called with an id that is not in the store resolve at once, write        *)
(* nothing and leave both stacks as they were.                              *)
C23_AbsentIdNoOp ==
    (Cur.kind \in {"updateTask", "reorderSiblings", "reorderInSection", "reorderInFocus"}
            /\ ~Exists(Cur.pre, Target(Cur)))
        => /\ Done(Cur)
           /\ Cur.log = <<>>
           /\ store = Cur.pre
           /\ undoStack = Cur.preUndo
           /\ redoStack = Cur.preRedo

C23_Witness ==
    /\ Cur.kind \in {"reorderSiblings", "reorderInSection", "reorderInFocus"}
    /\ ~Exists(Cur.pre, Target(Cur))
    /\ Cur.preRedo # <<>>
    /\ Done(Cur) /\ redoStack # <<>>

(* C24: deleteTask(id) with an id that is not in the store resolves without *)
(* error and leaves the store, the undo stack and the redo stack unchanged. *)
C24_DeleteAbsentNoOp ==
    (Cur.kind = "deleteTask" /\ ~Exists(Cur.pre, Cur.args.id))
        => /\ Cur.phase \notin {"failed", "diverged"}
           /\ store = Cur.pre
           /\ undoStack = Cur.preUndo
           /\ redoStack = Cur.preRedo

(* C25: getAllTags never throws.  With nobody signed in it returns the empty *)
(* list and leaves the store and both stacks as they were; with a user       *)
(* signed in it returns every tag of the collection exactly once, in         *)
(* ascending order.                                                          *)
C25_GetAllTags ==
    Cur.kind = "getAllTags" =>
        /\ Done(Cur)
        /\ Cur.user = NoUser =>
              /\ Cur.result = <<>>
              /\ store = Cur.pre
              /\ undoStack = Cur.preUndo
              /\ redoStack = Cur.preRedo
        /\ Cur.user # NoUser =>
              /\ {Cur.result[j] : j \in DOMAIN Cur.result}
                    = UNION {{Cur.pre[i].tags[k] : k \in DOMAIN Cur.pre[i].tags} :
                                 i \in DOMAIN Cur.pre}
              /\ \A j1, j2 \in DOMAIN Cur.result :
                    j1 < j2 => /\ Cur.result[j1] # Cur.result[j2]
                               /\ Less(CodeUnits(Cur.result[j1]), CodeUnits(Cur.result[j2]))

(* a signed-out call returned nothing, and after the sign-in the next call   *)
(* returns the three tags of a collection that holds one of them twice       *)
C25_Witness ==
    /\ Cur.kind = "getAllTags"
    /\ Cur.user = User
    /\ Cur.result = <<"B", "a", "ab">>
    /\ trail # <<>>
    /\ trail[1].kind = "getAllTags"
    /\ trail[1].user = NoUser
    /\ trail[1].result = <<>>

(* C26: with nobody signed in, addTask, updateTask, deleteTask and the three *)
(* reorders reject before they write to the store or push on the history.    *)
C26_UnauthenticatedRejects ==
    (Cur.kind \in MutationKinds /\ Cur.user = NoUser)
        => /\ Cur.phase = "failed"
           /\ Cur.log = <<>>
           /\ store = Cur.pre
           /\ undoStack = Cur.preUndo
           /\ redoStack = Cur.preRedo

(* a reorder rejected while signed out, after an addTask rejected the same way *)
C26_Witness ==
    /\ Cur.kind \in {"reorderSiblings", "reorderInSection", "reorderInFocus"}
    /\ Cur.user = NoUser
    /\ Cur.phase = "failed"
    /\ Exists(Cur.pre, Cur.args.draggedId)
    /\ trail # <<>>
    /\ trail[1].kind = "addTask"
    /\ trail[1].phase = "failed"

(* the writes of a call that the store has applied, in order *)
IssuedWrites(c) == Flatten([i \in 1..Len(Issued(c)) |-> Issued(c)[i].ws])

(* the writes undo / redo has to make for the operation it popped *)
ReplayWrites(c) == IF c.kind = "undo" THEN InverseWrites(c.op) ELSE ForwardWrites(c.op)

Replaying(c) ==
    /\ c.kind \in {"undo", "redo"}
    /\ (IF c.kind = "undo" THEN c.preUndo ELSE c.preRedo) # <<>>

(* C27: when the store write for a sub-operation of a BATCH fails during     *)
(* undo or redo, the sub-operations before it stay applied, the ones after   *)
(* it are not applied, and the call rejects (it resolves only when every     *)
(* sub-operation was applied).                                               *)
C27_BatchFailure ==
    (Replaying(Cur) /\ Cur.op.type = "BATCH") =>
        LET ws == ReplayWrites(Cur)
            k == Len(IssuedWrites(Cur))
        IN /\ k <= Len(ws)
           /\ IssuedWrites(Cur) = SubSeq(ws, 1, k)
           /\ store = ApplyWrites(Cur.pre, SubSeq(ws, 1, k))
           /\ Done(Cur) => k = Len(ws)
           /\ Cur.phase = "failed" => k < Len(ws)

(* the undo of a BATCH failed after a sub-operation had been applied *)
C27_Witness ==
    /\ Replaying(Cur)
    /\ Cur.kind = "undo"
    /\ Cur.op.type = "BATCH"
    /\ Cur.phase = "failed"
    /\ Len(IssuedWrites(Cur)) >= 1
    /\ Len(ReplayWrites(Cur)) > Len(IssuedWrites(Cur))
    /\ store # Cur.pre

(* the places of the log that hold an event of one kind *)
At(c, ev) == {i \in 1..Len(c.log) : c.log[i].ev = ev}

(* C28: undo() and redo() notify the listeners only after every store write  *)
(* of the operation has settled, and the stack the operation moves to (the   *)
(* redo stack for undo, the undo stack for redo) changes only after that.    *)
C28_NotifyAfterWrites ==
    Replaying(Cur) =>
        LET settled == /\ IssuedWrites(Cur) = ReplayWrites(Cur)
                       /\ store = ApplyWrites(Cur.pre, ReplayWrites(Cur))
        IN /\ At(Cur, "notify") # {} =>
                /\ settled
                /\ \A i \in At(Cur, "notify"), j \in At(Cur, "write") : j < i
           /\ (Cur.kind = "undo" /\ redoStack # Cur.preRedo) => settled
           /\ (Cur.kind = "redo" /\ undoStack # Cur.preUndo) => settled

(* an undo of a BATCH with two writes or more has notified *)
C28_Witness ==
    /\ Replaying(Cur)
    /\ Cur.kind = "undo"
    /\ Len(ReplayWrites(Cur)) >= 2
    /\ At(Cur, "notify") # {}
    /\ redoStack # Cur.preRedo
    /\ store # Cur.pre

(* The call in slot s ran alone and is the last call so far: no call was in *)
(* flight when it started and none has started since.                       *)
RanAlone(s) ==
    /\ calls[s].kind # "idle"
    /\ calls[s].overlaps = {}
    /\ \A r \in Slots \ {s} :
            Free(r) /\ (calls[r].kind # "idle" => calls[r].seq < calls[s].seq)

(* the values of `field` over ids are 0..n-1 with no duplicate *)
Dense(st, ids, field) ==
    /\ {st[i][field] : i \in ids} = 0..(Cardinality(ids) - 1)
    /\ \A i, j \in ids : st[i][field] = st[j][field] => i = j

(* the calls in the two slots overlapped: the second started, and read, *)
(* while the first was awaiting its commit                              *)
Overlapped(c, d) == c.kind # "idle" /\ d.kind # "idle" /\ (c.overlaps # {} \/ d.overlaps # {})

(* C29: a reorderSiblings (reorderInSection) that runs alone leaves the      *)
(* children of its parent (the tasks of its section) with order              *)
(* (sectionOrder) 0..n-1 without duplicates; two such calls that both read   *)
(* before either commits can leave them otherwise.                           *)
C29_ReorderRace ==
    \A s \in Slots :
        (RanAlone(s) /\ Done(calls[s])
                /\ calls[s].kind \in {"reorderSiblings", "reorderInSection"}
                /\ Exists(calls[s].pre, calls[s].args.draggedId))
            => /\ calls[s].kind = "reorderSiblings"
                    => Dense(store, WhereParent(store, calls[s].args.newParentId), "order")
               /\ (calls[s].kind = "reorderInSection"
                        /\ calls[s].pre[calls[s].args.draggedId].dueDate
                                = calls[s].args.targetDate)
                    => Dense(store, InSection(store, calls[s].args.targetDate), "sectionOrder")

(* two reorderInSection calls on one section overlapped and left duplicate   *)
(* sectionOrder values, after two reorderSiblings calls on one parent had    *)
(* overlapped and left duplicate order values                                *)
C29_Witness ==
    /\ calls[1].kind = "reorderInSection" /\ calls[2].kind = "reorderInSection"
    /\ Done(calls[1]) /\ Done(calls[2])
    /\ calls[1].pre = calls[2].pre
    /\ calls[2].overlaps = {1}
    /\ calls[1].args.targetDate = calls[2].args.targetDate
    /\ ~Dense(store, InSection(store, calls[1].args.targetDate), "sectionOrder")
    /\ Len(trail) = 2
    /\ trail[1].kind = "reorderSiblings" /\ trail[2].kind = "reorderSiblings"
    /\ trail[1].pre = trail[2].pre
    /\ Overlapped(trail[1], trail[2])
    /\ trail[1].args.newParentId = trail[2].args.newParentId
    /\ ~Dense(store, WhereParent(store, trail[1].args.newParentId), "order")

(* C30: an undo() that runs alone moves the newest operation of the undo     *)
(* stack to the top of the redo stack, so the redo stack is the reverse of   *)
(* the order the operations had on the undo stack; two undo() calls that     *)
(* overlap can leave the two operations on the redo stack in the other order. *)
C30_UndoRace ==
    \A s \in Slots :
        (RanAlone(s) /\ Done(calls[s]) /\ calls[s].kind = "undo" /\ calls[s].preUndo # <<>>)
            => undoStack \o Reverse(redoStack)
                    = calls[s].preUndo \o Reverse(calls[s].preRedo)

(* the second undo was started before the writes of the first had settled    *)
(* and finished first: the operation that was newest on the undo stack is on *)
(* top of the redo stack, where redo() takes it before the older one         *)
C30_Witness ==
    /\ calls[1].kind = "undo" /\ calls[2].kind = "undo"
    /\ Done(calls[1]) /\ Done(calls[2])
    /\ calls[2].overlaps = {1}
    /\ Len(calls[1].preUndo) = 2
    /\ calls[1].op = calls[1].preUndo[2]
    /\ calls[2].op = calls[1].preUndo[1]
    /\ Len(ReplayWrites(calls[1])) > Len(ReplayWrites(calls[2]))
    /\ undoStack = <<>>
    /\ redoStack = calls[1].preRedo \o calls[1].preUndo

FocusView(c) == Rendered(c) /\ c.args.filter = "focus"

(* C31: the focus view has exactly one root node for every task of its      *)
(* list (the focused tasks), every node has no children whatever the        *)
(* parentId links are, and the nodes are in non-decreasing focusOrder.      *)
C31_FocusFlat ==
    FocusView(Cur)
        => /\ {Cur.tasks[i].id : i \in 1..Len(Cur.tasks)}
                = {i \in DOMAIN Cur.pre : Cur.pre[i].isFocused}
           /\ \A i \in 1..Len(Cur.tasks) :
                Cardinality({k \in 1..Len(Cur.rootNodes) :
                                Cur.rootNodes[k].task.id = Cur.tasks[i].id}) = 1
           /\ \A k \in 1..Len(Cur.rootNodes) :
                /\ InList(Cur.tasks, Cur.rootNodes[k].task.id)
                /\ Cur.rootNodes[k].task = Cur.pre[Cur.rootNodes[k].task.id]
                /\ Cur.rootNodes[k].children = <<>>
           /\ \A j, k \in 1..Len(Cur.rootNodes) :
                j < k => Cur.rootNodes[j].task.focusOrder <= Cur.rootNodes[k].task.focusOrder

(* a focus view of three tasks in which a task comes before its parent *)
C31_Witness ==
    /\ FocusView(Cur)
    /\ Len(Cur.rootNodes) = 3
    /\ \E j, k \in 1..Len(Cur.rootNodes) :
            j < k /\ Cur.rootNodes[j].task.parentId = Cur.rootNodes[k].task.id

(* C32: an addTask call that completes has pushed exactly one operation, a  *)
(* BATCH of the UPDATEs of the shifted siblings followed by the ADD of the  *)
(* new task; one undo() right after it deletes the new task and gives the   *)
(* shifted siblings their orders back: the store is what it was before the  *)
(* addTask.                                                                 *)
C32_AddTaskUndoUnit ==
    /\ (Cur.kind = "addTask" /\ Done(Cur))
            => LET ops == Top(undoStack).batchOperations
                   n == Len(ops)
               IN /\ At(Cur, "push") # {} /\ Cardinality(At(Cur, "push")) = 1
                  /\ undoStack = Append(Cur.preUndo, Top(undoStack))
                  /\ Top(undoStack).type = "BATCH"
                  /\ n >= 1
                  /\ ops[n].type = "ADD" /\ ops[n].taskId = Cur.newTask.id
                  /\ \A i \in 1..(n - 1) :
                        /\ ops[i].type = "UPDATE"
                        /\ ops[i].taskId \in DOMAIN Cur.pre
                        /\ ops[i].prevUpdateSnapshot
                                = [order |-> Cur.pre[ops[i].taskId].order]
                        /\ ops[i].newUpdateSnapshot
                                = [order |-> store[ops[i].taskId].order]
                  /\ \A i \in DOMAIN Cur.pre :
                        Cur.pre[i].order # store[i].order
                            => Cardinality({k \in 1..(n - 1) : ops[k].taskId = i}) = 1
    /\ (Cur.kind = "undo" /\ Done(Cur) /\ trail # <<>>
                /\ trail[1].kind = "addTask" /\ Done(trail[1]))
            => /\ Cur.op = Top(trail[1].preUndo \o <<Cur.op>>)
               /\ Cur.preUndo = Append(trail[1].preUndo, Cur.op)
               /\ store = trail[1].pre

(* the undo of an addTask that had shifted a sibling *)
C32_Witness ==
    /\ Cur.kind = "undo" /\ Done(Cur)
    /\ trail # <<>>
    /\ trail[1].kind = "addTask" /\ Done(trail[1])
    /\ Len(Cur.op.batchOperations) >= 2
    /\ Cur.pre # trail[1].pre
    /\ store = trail[1].pre

ReorderKinds == {"reorderSiblings", "reorderInSection", "reorderInFocus"}

(* C33: one undo() right after a reorderSiblings, reorderInSection or        *)
(* reorderInFocus call that changed something gives the dragged task its     *)
(* parentId back and every rewritten order, sectionOrder or focusOrder its   *)
(* value before the call: the store is what it was before the reorder.       *)
C33_ReorderRoundTrip ==
    (Cur.kind = "undo" /\ Done(Cur) /\ trail # <<>>
            /\ trail[1].kind \in ReorderKinds /\ Done(trail[1]) /\ Pushed(trail[1]))
        => /\ Cur.op = trail[1].op
           /\ store = trail[1].pre

(* the undo of a reorderSiblings that had moved a task to another parent and *)
(* renumbered a sibling                                                      *)
C33_Witness ==
    /\ Cur.kind = "undo" /\ Done(Cur)
    /\ trail # <<>>
    /\ trail[1].kind = "reorderSiblings" /\ Done(trail[1]) /\ Pushed(trail[1])
    /\ Len(Cur.op.batchOperations) >= 2
    /\ Cur.pre[trail[1].args.draggedId].parentId
            # trail[1].pre[trail[1].args.draggedId].parentId
    /\ store = trail[1].pre

(* the group a reorder renumbers and the field it renumbers it by *)
GroupField(c) ==
    CASE c.kind = "reorderSiblings" -> "order"
      [] c.kind = "reorderInSection" -> "sectionOrder"
      [] c.kind = "reorderInFocus" -> "focusOrder"

GroupOf(c, st) ==
    CASE c.kind = "reorderSiblings" -> WhereParent(st, c.args.newParentId)
      [] c.kind = "reorderInSection" -> InSection(st, c.args.targetDate)
      [] c.kind = "reorderInFocus" -> {i \in DOMAIN st : st[i].isFocused}

(* the dragged task is in the group already, at dropIndex, and the group is *)
(* numbered 0..n-1                                                          *)
InPlace(c) ==
    /\ c.args.draggedId \in GroupOf(c, c.pre)
    /\ Dense(c.pre, GroupOf(c, c.pre), GroupField(c))
    /\ c.pre[c.args.draggedId][GroupField(c)] = c.args.dropIndex

C35_FieldsIndependent ==
    (Cur.kind \in ReorderKinds /\ Exists(Cur.pre, Cur.args.draggedId))
        => /\ DOMAIN store = DOMAIN Cur.pre
           /\ \A i \in DOMAIN Cur.pre, f \in Fields :
                store[i][f] # Cur.pre[i][f]
                    => /\ i = Cur.args.draggedId \/ i \in GroupOf(Cur, Cur.pre)
                       /\ \/ f = GroupField(Cur)
                          \/ /\ Cur.kind = "reorderSiblings"
                             /\ f = "parentId"
                             /\ i = Cur.args.draggedId
           /\ \A k \in 1..Len(IssuedWrites(Cur)) :
                DOMAIN IssuedWrites(Cur)[k].data \subseteq
                    {GroupField(Cur)} \cup (IF Cur.kind = "reorderSiblings"
                                             THEN {"parentId"} ELSE {})

(* a task moved from under its parent to the root, its sibling staying      *)
(* under the former parent with the order it had                            *)
C35_Witness ==
    /\ Cur.kind = "reorderSiblings" /\ Done(Cur)
    /\ Exists(Cur.pre, Cur.args.draggedId)
    /\ Cur.pre[Cur.args.draggedId].parentId # root
    /\ store[Cur.args.draggedId].parentId = root
    /\ \E i \in DOMAIN store \ {Cur.args.draggedId} :
            /\ store[i].parentId = Cur.pre[Cur.args.draggedId].parentId
            /\ store[i].order # 0
            /\ store[i] = Cur.pre[i]
    /\ \E i \in DOMAIN store : store[i].order # Cur.pre[i].order

(* no task names a parent that is not in the store *)
NoDangling(st) == \A i \in DOMAIN st : st[i].parentId = root \/ Exists(st, st[i].parentId)

(* C36: when addTask and reorderSiblings are given 'root' or a task of the  *)
(* store as parent and updateTask leaves parentId alone, then after any     *)
(* sequence of completed addTask, updateTask, deleteTask, reorder, undo and *)
(* redo calls every task has parentId 'root' or the id of a task in the     *)
(* store.                                                                   *)
C36_NoDanglingParent == AllFree => NoDangling(store)

(* a task with descendants was deleted, restored by undo and deleted again  *)
(* by redo                                                                  *)
C36_Witness ==
    /\ Cur.kind = "redo" /\ Done(Cur) /\ Cur.preRedo # <<>>
    /\ Len(trail) = 2
    /\ trail[1].kind = "undo" /\ Done(trail[1])
    /\ trail[2].kind = "deleteTask" /\ Done(trail[2])
    /\ Len(Cur.op.batchOperations) >= 2
    /\ store # <<>>
    /\ store = trail[1].pre
    /\ NoDangling(store)

(* C37: with one call at a time, an undo() followed at once by a redo()      *)
(* leaves every task of the store with the field values it had before the   *)
(* undo(), whatever operation was on top of the undo stack.                  *)
C37_UndoRedoIdentity ==
    (Cur.kind = "redo" /\ Done(Cur) /\ Replaying(Cur) /\ trail # <<>>
            /\ trail[1].kind = "undo" /\ Done(trail[1]) /\ Replaying(trail[1]))
        => store = trail[1].pre

(* C38: also when calls interleave, and a push runs while an undo() or a    *)
(* redo() is between popping its operation and pushing it on the other      *)
(* stack, the undo stack holds at most MAX_HISTORY operations once every    *)
(* call has completed.                                                      *)
C38_CapUnderInterleaving == AllFree => Len(undoStack) <= MAX_HISTORY

(* the undo in slot s took its operation off the undo stack, and the call  *)
(* in slot r recorded a new operation (history.push) while that undo was    *)
(* still awaiting its store writes                                          *)
PushedDuringUndo(s, r) ==
    /\ calls[s].kind = "undo"
    /\ calls[s].preUndo # <<>>
    /\ Pushed(calls[r])
    /\ s \in calls[r].overlaps

(* C39: once a push has happened, the redo stack holds no operation that    *)
(* was taken off the undo stack before that push, also when the push        *)
(* happens while an undo() is suspended on its store writes: after both     *)
(* calls have completed the operation that undo popped is not on the redo   *)
(* stack.                                                                   *)
C39_NoBranchUnderInterleaving ==
    \A s, r \in Slots :
        (PushedDuringUndo(s, r) /\ Done(calls[s]) /\ Done(calls[r]))
            => \A i \in 1..Len(redoStack) : redoStack[i] # calls[s].op

(* C40: when the store call made by undo() (or redo()) fails, the operation *)
(* that was popped is afterwards on neither the undo stack nor the redo     *)
(* stack (the stack it came from is one shorter, the other one is as it     *)
(* was) and the listeners have not been notified.                           *)
C40_FailedReplayLosesOp ==
    (Replaying(Cur) /\ Cur.phase = "failed") =>
        /\ At(Cur, "notify") = {}
        /\ Cur.kind = "undo" => undoStack = Pop(Cur.preUndo) /\ redoStack = Cur.preRedo
        /\ Cur.kind = "redo" => redoStack = Pop(Cur.preRedo) /\ undoStack = Cur.preUndo

(* an undo whose write the store rejected: the operation it popped is on    *)
(* no stack any more, and the store is as it was                            *)
C40_Witness ==
    /\ Replaying(Cur)
    /\ Cur.kind = "undo"
    /\ Cur.phase = "failed"
    /\ \A i \in 1..Len(undoStack) : undoStack[i] # Cur.op
    /\ \A i \in 1..Len(redoStack) : redoStack[i] # Cur.op
    /\ Len(undoStack) + Len(redoStack) + 1 = Len(Cur.preUndo) + Len(Cur.preRedo)
    /\ store = Cur.pre

====
